---- MODULE Spec2Model ----
(***************************************************************************)
(* CMOR compliance checker of esmvalcore/cmor/check.py (class CMORCheck).  *)
(*                                                                         *)
(* A cube is a record: identity, variable name, standard name, units,      *)
(* attributes, rank, the order of the data along every dimension, its      *)
(* coordinates and the names of its categorised auxiliary coordinates.     *)
(* The checker's methods are run step by step: one action per sub-check    *)
(* of check_metadata / check_data, sequenced by pc exactly as the method   *)
(* bodies sequence them.  An exception ends the running call.              *)
(*                                                                         *)
(* Numbers: coordinate points are integers.  Time points are held in       *)
(* thousandths of the coordinate's unit (1000 = one day of a "days since"  *)
(* coordinate), so that the tolerance 0.001 of the time check is 1.        *)
(***************************************************************************)
EXTENDS Integers, Sequences, FiniteSets, TLC

\* ------------------------------------------------------------------ bounds
\* calls of check_metadata / check_data made on one cube
MaxCalls == 2
\* points of the time coordinate
MaxTimeLen == 3

\* ------------------------------------------------------------- small helpers
Range(s) == {s[i] : i \in 1..Len(s)}

Reverse(s) == [i \in 1..Len(s) |-> s[Len(s) + 1 - i]]

\* Python truthiness of a string: the empty string is false
Truthy(x) == x # ""

\* Python truthiness of a list, and of a table string held as <<>> when it is
\* empty and as <<value>> otherwise
Given(x) == x # <<>>

\* a comparison of unit tokens that minds the case
lower_not(str) == str

\* str.lower() on the unit tokens the model uses
lower(str) == IF str = "PSU" THEN "psu" ELSE str

\* --------------------------------------------------------------- cf_units
TimeRefUnits == {"days since 1950-1-1 00:00:00", "days since 1949-1-1",
                 "hours since 1950-1-1"}

\* physical dimension of a unit string ("unknown" is cf_units' unknown unit,
\* which is what iris gives a cube whose file said "psu")
UnitDim(u) ==
    CASE u \in {"K", "degC"} -> "temperature"
      [] u \in {"1", "1.0"} -> "dimensionless"
      [] u \in {"m"} -> "length"
      [] u \in {"degrees_north", "degrees_east", "degrees", "arc_minute"} -> "angle"
      [] u \in TimeRefUnits -> "time_reference"
      [] u \in {"days"} -> "time"
      [] OTHER -> "unknown"

\* cf_units.Unit.is_convertible
is_convertible(u, v) == UnitDim(u) = UnitDim(v) /\ UnitDim(u) # "unknown"

\* cf_units.Unit.is_unknown
is_unknown(u) == u = "unknown"

\* is_time_reference that takes every unit for a time reference
is_time_reference_any(u) == TRUE

\* cf_units.Unit.is_time_reference
is_time_reference(u) == u \in TimeRefUnits

\* Unit.convert on an angle: arc minutes are sixtieths of a degree
convert_angle(p, from, to) ==
    IF from = "arc_minute" /\ to # "arc_minute" THEN p \div 60
    ELSE IF from # "arc_minute" /\ to = "arc_minute" THEN p * 60
    ELSE p

\* ---------------------------------------------------------------- calendars
IsLeap(y) == y % 4 = 0 /\ (y % 100 # 0 \/ y % 400 = 0)

MonthLen(cal, y, m) ==
    IF cal = "360_day" THEN 30
    ELSE IF m = 2
         THEN IF cal \in {"366_day", "all_leap"}
                 \/ (cal \in {"gregorian", "standard"} /\ IsLeap(y))
              THEN 29 ELSE 28
         ELSE IF m \in {4, 6, 9, 11} THEN 30 ELSE 31

YearLen(cal, y) ==
    IF cal = "360_day" THEN 360
    ELSE IF cal \in {"366_day", "all_leap"}
            \/ (cal \in {"gregorian", "standard"} /\ IsLeap(y))
         THEN 366 ELSE 365

\* date of day number d (whole days, d >= 0) counted from the first of month m
\* of year y
RECURSIVE DateFrom(_, _, _, _)
DateFrom(cal, y, m, d) ==
    IF d < MonthLen(cal, y, m)
    THEN [year |-> y, month |-> m]
    ELSE DateFrom(cal, IF m = 12 THEN y + 1 ELSE y, IF m = 12 THEN 1 ELSE m + 1,
                  d - MonthLen(cal, y, m))

\* a time point (thousandths of the unit) as thousandths of a day since
\* 1950-1-1 in the coordinate's calendar: Unit.convert between time references
to_days_since_1950(p, units, cal) ==
    CASE units = "hours since 1950-1-1" -> p \div 24
      [] units = "days since 1949-1-1" -> p - 1000 * YearLen(cal, 1949)
      [] OTHER -> p

\* Unit.num2date of a point of a time-reference coordinate
num2date(p, units, cal) ==
    DateFrom(cal, 1950, 1, to_days_since_1950(p, units, cal) \div 1000)

\* ------------------------------------------------------------ iris: the cube
\* Coord.name(): the standard name, else the variable name
coord_name(c) == IF c.standard_name # "" THEN c.standard_name ELSE c.var_name

\* Coord.ndim: a scalar coordinate holds one point in a 1-d array
coord_ndim(c) == IF Len(c.dims) = 0 THEN 1 ELSE Len(c.dims)

\* Cube.coord(var_name=..., dim_coords=...): the positions that match; the call
\* raises CoordinateNotFoundError unless exactly one does
coords_by_var_name(cube, var_name, dim_only) ==
    {i \in 1..Len(cube.coords) :
        /\ cube.coords[i].var_name = var_name
        /\ dim_only => cube.coords[i].dim_coord}

\* Cube.coord(name, dim_coords=...)
coords_by_name(cube, name, dim_only) ==
    {i \in 1..Len(cube.coords) :
        /\ coord_name(cube.coords[i]) = name
        /\ dim_only => cube.coords[i].dim_coord}

Found(S) == Cardinality(S) = 1

The(S) == CHOOSE i \in S : TRUE

\* names of the cube's auxiliary coordinates
aux_coord_names(cube) ==
    {coord_name(cube.coords[i]) :
        i \in {j \in 1..Len(cube.coords) : ~cube.coords[j].dim_coord}}
    \cup cube.aux

\* Coord.is_monotonic: iris.util.monotonic(points), not strict
is_monotonic(points) ==
    \/ \A i \in 1..(Len(points) - 1) : points[i] <= points[i + 1]
    \/ \A i \in 1..(Len(points) - 1) : points[i] >= points[i + 1]

\* a sequence rearranged by a sequence of positions
Permute(s, perm) == [k \in 1..Len(perm) |-> s[perm[k]]]

\* the cube with the data and every 1-d coordinate of dimension d rearranged
rearranged(cube, d, perm) ==
    [cube EXCEPT
        !.id = cube.id + 1,
        !.order = [e \in DOMAIN cube.order |->
                      IF e = d THEN Permute(cube.order[e], perm) ELSE cube.order[e]],
        !.coords = [i \in 1..Len(cube.coords) |->
                      IF cube.coords[i].dims = <<d>>
                      THEN [cube.coords[i] EXCEPT
                               !.points = Permute(cube.coords[i].points, perm)]
                      ELSE cube.coords[i]]]

\* iris.util.reverse(cube, dims) for a single dimension: a new cube
reverse(cube, d) ==
    rearranged(cube, d, [k \in 1..Len(cube.order[d]) |-> Len(cube.order[d]) + 1 - k])

\* Unit.modulus: 360 for degrees, none (0 here) for every other unit
modulus(units) ==
    IF units \in {"degrees", "degrees_east", "degrees_north"} THEN 360 ELSE 0

\* longitudes left where they are
wrap_lons_not(p) == p

\* iris.analysis.cartography.wrap_lons(points, 0, 360)
wrap_lons(p) == p % 360

\* Cube.intersection(CoordExtent(coord, 0, 360, True, False)) on dimension
\* coordinate i: the points are wrapped into [0, 360) and the block that was
\* wrapped by a different number of turns is moved in front of the other
intersection(cube, i) ==
    LET c == cube.coords[i]
        n == Len(c.points)
        splits == {k \in 1..(n - 1) :
                      c.points[k] - wrap_lons(c.points[k])
                          # c.points[k + 1] - wrap_lons(c.points[k + 1])}
        perm == IF splits = {}
                THEN [k \in 1..n |-> k]
                ELSE LET e == CHOOSE k \in splits : \A j \in splits : k <= j
                     IN [k \in 1..n |-> IF k <= n - e THEN e + k ELSE k - (n - e)]
        moved == rearranged(cube, c.dims[1], perm)
    IN [moved EXCEPT !.coords[i].points =
                        [k \in 1..n |-> wrap_lons(moved.coords[i].points[k])]]

\* ------------------------------------------------------- the checker's state
VARIABLES
    cube,             \* self._cube
    failerr,          \* self._failerr
    errors,           \* self._errors
    warnings,         \* self._warnings
    cmor_var,         \* self._cmor_var
    frequency,        \* self.frequency
    automatic_fixes,  \* self.automatic_fixes
    pc,               \* the statement of check_metadata / check_data to run next
    phase,            \* the method running, or last run: "metadata", "data"
    outcome,          \* how the last call ended: "returned" or an exception
    raised,           \* the messages of the CMORCheckError the last call raised
    logged,           \* what this call sent to logger.warning
    printed,          \* what this call printed
    trace,            \* the sub-checks this call has entered, in order
    nreported,        \* report_error calls of this call
    scanned,          \* pairs of time points this call's time check examined
    start,            \* the cube and the error list as this call found them
    ctor_cube,        \* the cube given to the constructor
    calls,            \* calls made on this cube
    fresh,            \* the checker was constructed and not used yet
    entry,            \* the call of cmor_check_metadata / cmor_check_data /
                      \* cmor_check that is running, or ran last
    masking           \* the call of mask_landsea: its arguments, the statement
                      \* it is at, and what it has done to the cube's data

vars == <<cube, failerr, errors, warnings, cmor_var, frequency, automatic_fixes,
          pc, phase, outcome, raised, logged, printed, trace, nreported,
          scanned, start, ctor_cube, calls, fresh, entry, masking>>

\* What a running sub-check carries from statement to statement: the state it
\* may change, and the exception that ended it (exc, "" while it runs).
Running ==
    [cube |-> cube, errors |-> errors, warnings |-> warnings, exc |-> "",
     raised |-> <<>>, printed |-> printed, nreported |-> nreported,
     scanned |-> scanned]

\* an exception other than CMORCheckError leaves the statement
raise(s, exc) == IF s.exc # "" THEN s ELSE [s EXCEPT !.exc = exc]

\* CMORCheck.has_errors / has_warnings
has_errors(s) == Len(s.errors) > 0

has_warnings(s) == Len(s.warnings) > 0

\* report_error without the raise of fail-fast mode: the error is stored
report_error_stores(s, msg) ==
    IF s.exc # "" THEN s
    ELSE [s EXCEPT !.errors = Append(@, msg), !.nreported = @ + 1]

\* CMORCheck.report_error
report_error(s, msg) ==
    IF s.exc # "" THEN s
    ELSE IF failerr
         THEN [s EXCEPT !.exc = "CMORCheckError", !.raised = <<msg>>,
                        !.nreported = @ + 1]
         ELSE [s EXCEPT !.errors = Append(@, msg), !.nreported = @ + 1]

\* report_warning that treats the warning as an error
report_warning_as_error(s, msg) == report_error(s, msg)

\* report_warning that stores the warning whatever the mode
report_warning_stores(s, msg) ==
    IF s.exc # "" THEN s
    ELSE [s EXCEPT !.warnings = Append(@, msg)]

\* CMORCheck.report_warning
report_warning(s, msg) ==
    IF s.exc # "" THEN s
    ELSE IF failerr
         THEN [s EXCEPT !.printed = Append(@, msg)]
         ELSE [s EXCEPT !.warnings = Append(@, msg)]

\* CMORCheck._get_effective_units
get_effective_units ==
    IF lower(cmor_var.units) = "psu" THEN "1.0" ELSE cmor_var.units

\* cube.attributes.get(key, ''): an attribute is <<>> when absent, <<value>>
\* when present
attr_get(attributes, key) ==
    IF attributes[key] = <<>> THEN "" ELSE attributes[key][1]

\* CMORCheck._check_var_metadata
check_var_metadata(s0) ==
    LET s1 == IF /\ Truthy(cmor_var.standard_name)
                 /\ s0.cube.standard_name # cmor_var.standard_name
              THEN report_error(s0, <<"{}: {} should be {}, not {}",
                                      s0.cube.var_name, "standard_name",
                                      cmor_var.standard_name,
                                      s0.cube.standard_name>>)
              ELSE s0
        s2 == IF /\ s1.exc = ""
                 /\ automatic_fixes
                 /\ lower(attr_get(s1.cube.attributes, "invalid_units")) = "psu"
              THEN [s1 EXCEPT !.cube.units = "1.0",
                              !.cube.attributes.invalid_units = <<>>]
              ELSE s1
        s3 == IF /\ Truthy(cmor_var.units)
                 /\ ~is_convertible(s2.cube.units, get_effective_units)
              THEN report_error(s2, <<"Variable {} units {} can not be converted to {}",
                                      s2.cube.var_name, s2.cube.units,
                                      cmor_var.units>>)
              ELSE s2
    IN IF ~Truthy(cmor_var.positive) THEN s3
       ELSE IF s3.cube.attributes.positive = <<>>
            THEN report_warning(s3, <<"{}: attribute {} not present",
                                      s3.cube.var_name, "positive">>)
            ELSE IF s3.cube.attributes.positive[1] # cmor_var.positive
                 THEN report_error(s3, <<"{}: {} should be {}, not {}",
                                         s3.cube.var_name, "positive",
                                         cmor_var.positive,
                                         s3.cube.attributes.positive[1]>>)
                 ELSE s3

\* CMORCheck._check_fill_value: nothing is checked
check_fill_value(s) == s

\* _check_dim_names that takes a coordinate of another variable name for the
\* one it looks for, as long as the standard name is there
check_dim_name_by_standard_name(s, coordinate) ==
    IF s.exc # "" \/ coordinate.generic_level THEN s
    ELSE IF Found(coords_by_name(s.cube, coordinate.standard_name, FALSE)) THEN s
    ELSE report_error(s, <<"{}: does not {}", coordinate.name, "exist">>)

\* CMORCheck._check_dim_names, one coordinate of the loop
check_dim_name(s, coordinate) ==
    IF s.exc # "" \/ coordinate.generic_level THEN s
    ELSE LET by_var == coords_by_var_name(s.cube, coordinate.out_name, FALSE)
             by_std == coords_by_name(s.cube, coordinate.standard_name, FALSE)
         IN IF Found(by_var)
            THEN IF s.cube.coords[The(by_var)].standard_name
                        # coordinate.standard_name
                 THEN report_error(s, <<"{}: {} should be {}, not {}",
                                        coordinate.out_name, "standard_name",
                                        coordinate.standard_name,
                                        s.cube.coords[The(by_var)].standard_name>>)
                 ELSE s
            ELSE IF Found(by_std)
                 THEN report_error(s, <<"Coordinate {0} has var name {1} instead of {2}",
                                        coordinate.name,
                                        s.cube.coords[The(by_std)].var_name,
                                        coordinate.out_name>>)
                 ELSE report_error(s, <<"{}: does not {}", coordinate.name, "exist">>)

\* CMORCheck._check_dim_names: the loop, from coordinate k on
RECURSIVE check_dim_names_from(_, _)
check_dim_names_from(s, k) ==
    IF k > Len(cmor_var.coordinates) THEN s
    ELSE check_dim_names_from(check_dim_name(s, cmor_var.coordinates[k]), k + 1)

check_dim_names(s) == check_dim_names_from(s, 1)

\* _check_rank that leaves the generic levels out of the rank
check_rank_without_levels(s) ==
    LET counted == {k \in 1..Len(cmor_var.coordinates) :
                       /\ ~cmor_var.coordinates[k].generic_level
                       /\ ~Truthy(cmor_var.coordinates[k].value)
                       /\ Found(coords_by_name(
                              s.cube, cmor_var.coordinates[k].standard_name, FALSE))}
        dimensions ==
            UNION {Range(s.cube.coords[The(coords_by_name(
                       s.cube, cmor_var.coordinates[k].standard_name, FALSE))].dims) :
                   k \in counted}
    IN IF s.cube.ndim # Cardinality(dimensions)
       THEN report_error(s, <<"{}: does not {}", s.cube.var_name,
                              "match coordinate rank">>)
       ELSE s

\* CMORCheck._check_rank
check_rank(s) ==
    LET generic == {k \in 1..Len(cmor_var.coordinates) :
                       cmor_var.coordinates[k].generic_level}
        counted == {k \in 1..Len(cmor_var.coordinates) :
                       /\ ~cmor_var.coordinates[k].generic_level
                       /\ ~Truthy(cmor_var.coordinates[k].value)
                       /\ Found(coords_by_name(
                              s.cube, cmor_var.coordinates[k].standard_name, FALSE))}
        dimensions ==
            UNION {Range(s.cube.coords[The(coords_by_name(
                       s.cube, cmor_var.coordinates[k].standard_name, FALSE))].dims) :
                   k \in counted}
        rank == Cardinality(generic) + Cardinality(dimensions)
    IN IF s.cube.ndim # rank
       THEN report_error(s, <<"{}: does not {}", s.cube.var_name,
                              "match coordinate rank">>)
       ELSE s

\* CMORCheck._reverse_coord, on the coordinate at position i
reverse_coord(s, i) ==
    IF coord_ndim(s.cube.coords[i]) = 1
    THEN [s EXCEPT !.cube = reverse(s.cube, s.cube.coords[i].dims[1])]
    ELSE s

\* _check_coord_monotonicity_and_direction that reverses the cube whether or
\* not automatic fixes were asked for
check_coord_monotonicity_and_direction_repairing(s0, cmor, i, var_name) ==
    IF s0.exc # "" THEN s0
    ELSE
    LET coord == s0.cube.coords[i]
        s1 == IF ~is_monotonic(coord.points)
              THEN report_error(s0, <<"{}: is not {}", var_name, "monotonic">>)
              ELSE s0
        wrong == \/ /\ cmor.stored_direction = "increasing"
                    /\ coord.points[1] > coord.points[2]
                 \/ /\ cmor.stored_direction = "decreasing"
                    /\ coord.points[1] < coord.points[2]
    IN IF s1.exc # "" \/ Len(coord.points) = 1 THEN s1
       ELSE IF ~(Truthy(cmor.stored_direction) /\ wrong) THEN s1
       ELSE IF coord_ndim(coord) > 1
            THEN report_error(s1, <<"{}: is not {}", var_name,
                                    cmor.stored_direction>>)
            ELSE reverse_coord(s1, i)

\* CMORCheck._check_coord_monotonicity_and_direction
check_coord_monotonicity_and_direction(s0, cmor, i, var_name) ==
    IF s0.exc # "" THEN s0
    ELSE
    LET coord == s0.cube.coords[i]
        s1 == IF ~is_monotonic(coord.points)
              THEN report_error(s0, <<"{}: is not {}", var_name, "monotonic">>)
              ELSE s0
        wrong == \/ /\ cmor.stored_direction = "increasing"
                    /\ coord.points[1] > coord.points[2]
                 \/ /\ cmor.stored_direction = "decreasing"
                    /\ coord.points[1] < coord.points[2]
    IN IF s1.exc # "" \/ Len(coord.points) = 1 THEN s1
       ELSE IF ~(Truthy(cmor.stored_direction) /\ wrong) THEN s1
       ELSE IF ~automatic_fixes \/ coord_ndim(coord) > 1
            THEN report_error(s1, <<"{}: is not {}", var_name,
                                    cmor.stored_direction>>)
            ELSE reverse_coord(s1, i)

\* CMORCheck._check_requested_values: the loop, from requested value k on
RECURSIVE check_requested_values_from(_, _, _, _, _)
check_requested_values_from(s, coord_info, i, var_name, k) ==
    IF k > Len(coord_info.requested) THEN s
    ELSE check_requested_values_from(
             IF coord_info.requested[k] \notin Range(s.cube.coords[i].points)
             THEN report_warning(s, <<"{}: does not contain {} {}", var_name,
                                      ToString(coord_info.requested[k]),
                                      s.cube.coords[i].units>>)
             ELSE s,
             coord_info, i, var_name, k + 1)

check_requested_values(s, coord_info, i, var_name) ==
    check_requested_values_from(s, coord_info, i, var_name, 1)

\* CMORCheck._check_coord_values.  valid_min / valid_max are strings in the
\* table, <<>> here when empty and <<number>> otherwise.
check_coord_values(s0, coord_info, i, var_name) ==
    IF s0.exc # "" THEN s0
    ELSE
    LET coord == s0.cube.coords[i]
        s1 == check_requested_values(s0, coord_info, i, var_name)
        fixable == coord_info.standard_name = "longitude" /\ automatic_fixes
        below == /\ Given(coord_info.valid_min)
                 /\ \E k \in 1..Len(coord.points) :
                        coord.points[k] < coord_info.valid_min[1]
        above == /\ Given(coord_info.valid_max)
                 /\ \E k \in 1..Len(coord.points) :
                        coord.points[k] > coord_info.valid_max[1]
        s2 == IF below /\ ~fixable
              THEN report_error(s1, <<"{}: has values {} {}", var_name,
                                      "< valid_min =",
                                      ToString(coord_info.valid_min[1])>>)
              ELSE s1
        s3 == IF above /\ ~fixable
              THEN report_error(s2, <<"{}: has values {} {}", var_name,
                                      "> valid_max =",
                                      ToString(coord_info.valid_max[1])>>)
              ELSE s2
        l_fix_coord_value == (below \/ above) /\ fixable
    IN IF s3.exc # "" \/ ~l_fix_coord_value THEN s3
       ELSE IF modulus(coord.units) = 0
            THEN raise(s3, "ValueError")
            ELSE [s3 EXCEPT !.cube = intersection(s3.cube, i)]

\* coord.convert_units(cf_units.Unit(cmor.units, calendar)), in place
convert_coord_units(s, i, units) ==
    [s EXCEPT !.cube.coords[i].units = units,
              !.cube.coords[i].points =
                  [k \in 1..Len(@) |->
                      convert_angle(@[k], s.cube.coords[i].units, units)]]

\* CMORCheck._check_coord.  Coord.convert_units raises UnitConversionError on
\* unknown units, which is no ValueError and leaves the check, and ValueError
\* on units it cannot convert, which the check catches.
check_coord(s0, cmor, i, var_name) ==
    IF s0.exc # "" \/ s0.cube.coords[i].var_name = "time" THEN s0
    ELSE
    LET coord == s0.cube.coords[i]
        differ == Truthy(cmor.units) /\ coord.units # cmor.units
        fixed == automatic_fixes /\ is_convertible(coord.units, cmor.units)
        s1 == IF differ /\ automatic_fixes /\ is_unknown(coord.units)
              THEN raise(s0, "UnitConversionError")
              ELSE IF differ /\ fixed THEN convert_coord_units(s0, i, cmor.units)
              ELSE IF differ
                   THEN report_error(s0, <<"{}: {} should be {}, not {}",
                                           var_name, "units", cmor.units,
                                           coord.units>>)
                   ELSE s0
        s2 == check_coord_values(s1, cmor, i, var_name)
    IN IF ~automatic_fixes
       THEN check_coord_monotonicity_and_direction(s2, cmor, i, var_name)
       ELSE s2

\* CMORCheck._check_coords: the loop, from coordinate k on
RECURSIVE check_coords_from(_, _)
check_coords_from(s, k) ==
    IF k > Len(cmor_var.coordinates) \/ s.exc # "" THEN s
    ELSE LET coordinate == cmor_var.coordinates[k]
             by_var == coords_by_var_name(s.cube, coordinate.out_name, TRUE)
         IN check_coords_from(
                IF coordinate.generic_level \/ ~Found(by_var) THEN s
                ELSE check_coord(s, coordinate, The(by_var), coordinate.out_name),
                k + 1)

check_coords(s) == check_coords_from(s, 1)

\* _check_coords_data that looks at no coordinate
check_coords_data_skipped(s, k) == s

\* CMORCheck._check_coords_data: the loop, from coordinate k on
RECURSIVE check_coords_data_from(_, _)
check_coords_data_from(s, k) ==
    IF k > Len(cmor_var.coordinates) \/ s.exc # "" THEN s
    ELSE LET coordinate == cmor_var.coordinates[k]
             by_var == coords_by_var_name(s.cube, coordinate.out_name, TRUE)
         IN check_coords_data_from(
                IF coordinate.generic_level \/ ~Found(by_var) THEN s
                ELSE check_coord_monotonicity_and_direction(
                         s, coordinate, The(by_var), coordinate.out_name),
                k + 1)

check_coords_data(s) == check_coords_data_from(s, 1)

\* CMORCheck._simplify_calendar
simplify_calendar(calendar) ==
    CASE calendar = "all_leap" -> "366_day"
      [] calendar = "noleap" -> "365_day"
      [] calendar = "standard" -> "gregorian"
      [] OTHER -> calendar

\* tol = 0.001 of _check_time_coord, in thousandths of a day
tol == 1

\* frequency.endswith('hr'), on the frequency tokens of the model
endswith_hr(f) == f \in {"1hr", "3hr", "6hr", "subhr", "hr"}

\* float(frequency[:-2]) of an hourly token: <<N>>, or <<>> where float()
\* raises ValueError
hr_prefix(f) ==
    CASE f = "1hr" -> <<1>>
      [] f = "3hr" -> <<3>>
      [] f = "6hr" -> <<6>>
      [] OTHER -> <<>>

\* target_interval without the tolerance
target_interval_exact(f) ==
    CASE f = "dec" -> <<24 * 3600 * 1000, 24 * 3660 * 1000>>
      [] f = "day" -> <<24 * 1000, 24 * 1000>>
      [] f = "subhr" -> <<0, 1000>>
      [] OTHER -> <<1000 * hr_prefix(f)[1], 1000 * hr_prefix(f)[1]>>

\* target_interval of _check_time_coord, both ends multiplied by 24 so that
\* N / 24 days stays an integer: thousandths of a day times 24
target_interval(f) ==
    CASE f = "dec" -> <<24 * (3600 * 1000 - tol), 24 * (3660 * 1000 + tol)>>
      [] f = "day" -> <<24 * (1 * 1000 - tol), 24 * (1 * 1000 + tol)>>
      [] f = "subhr" -> <<24 * (0 - tol), 1000 + 24 * tol>>
      [] OTHER -> <<1000 * hr_prefix(f)[1] - 24 * tol,
                    1000 * hr_prefix(f)[1] + 24 * tol>>

\* the test of the monthly loop on the dates of two consecutive points, without
\* the roll-over of December
mon_fits_same_year(first, second) ==
    second.month = first.month + 1 /\ second.year = first.year

\* the test of the monthly loop on the dates of two consecutive points
mon_fits(first, second) ==
    /\ second.month = (IF first.month + 1 = 13 THEN 1 ELSE first.month + 1)
    /\ second.year = (IF first.month + 1 = 13 THEN first.year + 1 ELSE first.year)

\* the loops of _check_time_coord over consecutive points, from pair k on;
\* the first pair that does not fit is reported and ends the loop
RECURSIVE scan_time_from(_, _, _, _)
scan_time_from(s, i, var_name, k) ==
    LET coord == s.cube.coords[i]
    IN IF k > Len(coord.points) - 1 \/ s.exc # "" THEN s
       ELSE IF frequency \in {"mon", "yr"} /\ ~is_time_reference(coord.units)
            \* coord.cell(k).point is a number: it has no month and no year
            THEN raise([s EXCEPT !.scanned = @ + 1], "AttributeError")
       ELSE
       LET first == num2date(coord.points[k], coord.units, coord.calendar)
           second == num2date(coord.points[k + 1], coord.units, coord.calendar)
           interval == coord.points[k + 1] - coord.points[k]
           fits ==
               CASE frequency = "mon" -> mon_fits(first, second)
                 [] frequency = "yr" -> first.year + 1 = second.year
                 [] OTHER ->
                        /\ 24 * interval >= target_interval(frequency)[1]
                        /\ 24 * interval <= target_interval(frequency)[2]
           looked == [s EXCEPT !.scanned = @ + 1]
       IN IF fits THEN scan_time_from(looked, i, var_name, k + 1)
          ELSE report_error(looked, <<"{}: Frequency {} does not match input data",
                                      var_name, frequency>>)

\* CMORCheck._check_time_coord
check_time_coord(s0) ==
    LET by_name == coords_by_name(s0.cube, "time", TRUE)
    IN IF ~Found(by_name) THEN s0
       ELSE
       LET i == The(by_name)
           coord == s0.cube.coords[i]
           var_name == coord.var_name
           s1 == IF ~is_time_reference(coord.units)
                 THEN report_error(s0, <<"{}: does not {}", var_name,
                                         "have time reference units">>)
                 ELSE [s0 EXCEPT
                          !.cube.coords[i].points =
                              [k \in 1..Len(@) |->
                                  to_days_since_1950(@[k], coord.units,
                                                     coord.calendar)],
                          !.cube.coords[i].units = "days since 1950-1-1 00:00:00",
                          !.cube.coords[i].calendar =
                              simplify_calendar(coord.calendar)]
       IN IF s1.exc # "" THEN s1
          ELSE IF frequency \in {"mon", "yr", "dec", "day", "subhr"}
               THEN scan_time_from(s1, i, var_name, 1)
          ELSE IF endswith_hr(frequency)
               THEN IF hr_prefix(frequency) = <<>>
                    THEN raise(s1, "ValueError")
                    ELSE scan_time_from(s1, i, var_name, 1)
          ELSE report_error(s1, <<"{}: Frequency {} not supported by checker",
                                  var_name, frequency>>)

\* the four categorised coordinates, in the order they are added
AuxiliarTimeCoordinates == <<"day_of_month", "day_of_year", "month_number", "year">>

\* CMORCheck._add_auxiliar_time_coordinates: the four additions, from the k-th
\* on; coords holds the names found before the first addition.
\* iris.coord_categorisation needs the coordinate "time" and refuses a name the
\* cube already has.
RECURSIVE add_auxiliar_from(_, _, _)
add_auxiliar_from(s, coords, k) ==
    IF k > Len(AuxiliarTimeCoordinates) \/ s.exc # "" THEN s
    ELSE LET name == AuxiliarTimeCoordinates[k]
         IN add_auxiliar_from(
                IF name \in coords THEN s
                ELSE IF coords_by_name(s.cube, name, FALSE) # {}
                        \/ name \in s.cube.aux
                     THEN raise(s, "ValueError")
                     ELSE IF ~Found(coords_by_name(s.cube, "time", FALSE))
                          THEN raise(s, "CoordinateNotFoundError")
                          ELSE [s EXCEPT !.cube.aux = @ \cup {name}],
                coords, k + 1)

\* the four additions made without looking at the names the cube carries
add_auxiliar_unguarded(s) == add_auxiliar_from(s, {}, 1)

add_auxiliar_time_coordinates(s) ==
    add_auxiliar_from(s, aux_coord_names(s.cube), 1)

\* report_errors that raises nothing
report_errors_silent(s) == s

\* report_errors that empties the error list once it has raised
report_errors_clearing(s) ==
    IF has_errors(s)
    THEN [s EXCEPT !.exc = "CMORCheckError", !.raised = s.errors, !.errors = <<>>]
    ELSE s

\* CMORCheck.report_errors
report_errors(s) ==
    IF has_errors(s)
    THEN [s EXCEPT !.exc = "CMORCheckError", !.raised = s.errors]
    ELSE s

\* the first statement of check_data: the cube is converted to the effective
\* units; Cube.convert_units raises UnitConversionError on unknown units and
\* ValueError on units it cannot convert
convert_units(s) ==
    IF Truthy(cmor_var.units) /\ s.cube.units # get_effective_units
    THEN IF is_unknown(s.cube.units)
         THEN raise(s, "UnitConversionError")
         ELSE IF is_convertible(s.cube.units, get_effective_units)
         THEN [s EXCEPT !.cube.units = get_effective_units]
         ELSE raise(s, "ValueError")
    ELSE s

\* ------------------------------------------------------------------- inputs
\* CoordinateInfo entries of the variable's table (cmor/table.py), in the
\* order of the coordinates dict
CoordinateInfo(name, out_name, standard_name, units, stored_direction, valid_min, valid_max, requested) ==
    [name |-> name, out_name |-> out_name, standard_name |-> standard_name,
     units |-> units, stored_direction |-> stored_direction,
     generic_level |-> FALSE, valid_min |-> valid_min, valid_max |-> valid_max,
     requested |-> requested, value |-> ""]

TimeInfo ==
    CoordinateInfo("time", "time", "time", "days since 1950-1-1 00:00:00",
                   "increasing", <<>>, <<>>, <<>>)

LatInfo ==
    CoordinateInfo("latitude", "lat", "latitude", "degrees_north", "increasing",
                   <<-90>>, <<90>>, <<>>)

LonInfo ==
    CoordinateInfo("longitude", "lon", "longitude", "degrees_east", "increasing",
                   <<0>>, <<360>>, <<>>)

\* a latitude table entry that asks for exact values and the opposite direction
LatInfoRequested ==
    [LatInfo EXCEPT !.requested = <<0, 60>>, !.stored_direction = "decreasing"]

\* a generic level: no table information beyond its being one
LevInfo ==
    [CoordinateInfo("alevel", "lev", "", "", "", <<>>, <<>>, <<>>)
        EXCEPT !.generic_level = TRUE]

\* a scalar coordinate with a fixed value
HeightInfo ==
    [CoordinateInfo("height2m", "height", "height", "m", "increasing", <<1>>,
                    <<10>>, <<>>)
        EXCEPT !.value = "2.0"]

\* a coordinate of the cube
Coord(var_name, standard_name, units, calendar, points, dim_coord) ==
    [var_name |-> var_name, standard_name |-> standard_name, units |-> units,
     calendar |-> calendar, points |-> points, dims |-> <<>>,
     dim_coord |-> dim_coord]

\* a cube whose dimensions are those of dim_coords, in order, followed by
\* `anonymous` dimensions of length 2 without a dimension coordinate;
\* aux_coords are given with their dims
Cube(standard_name, units, invalid_units, positive, dim_coords, anonymous, aux_coords, aux) ==
    LET n == Len(dim_coords) + anonymous
    IN [id |-> 0, var_name |-> "tas", standard_name |-> standard_name,
        units |-> units,
        attributes |-> [invalid_units |-> invalid_units, positive |-> positive],
        ndim |-> n,
        order |-> [d \in 0..(n - 1) |->
                      IF d < Len(dim_coords)
                      THEN [k \in 1..Len(dim_coords[d + 1].points) |-> k]
                      ELSE <<1, 2>>],
        coords |-> [d \in 1..Len(dim_coords) |->
                       [dim_coords[d] EXCEPT !.dims = <<d - 1>>]] \o aux_coords,
        aux |-> aux]

\* the variable of the table: VariableInfo
VariableInfo(standard_name, units, positive, var_frequency, coordinates) ==
    [standard_name |-> standard_name, units |-> units, positive |-> positive,
     frequency |-> var_frequency, coordinates |-> coordinates]

\* the coordinates of a cube that matches the table
GoodTime ==
    Coord("time", "time", "days since 1950-1-1 00:00:00", "gregorian",
          <<15000, 45000, 74000>>, TRUE)

GoodLat == Coord("lat", "latitude", "degrees_north", "", <<-30, 0, 30>>, TRUE)

GoodLon == Coord("lon", "longitude", "degrees_east", "", <<0, 120, 240>>, TRUE)

\* --- what the caller may vary about the variable itself: the cube's standard
\* name (cs), units (cu), attributes invalid_units (iu) and positive (cp), and
\* the table's standard name (ss), units (su) and positive (sp)
Identity(cs, cu, iu, cp, ss, su, sp) ==
    [cs |-> cs, cu |-> cu, iu |-> iu, cp |-> cp, ss |-> ss, su |-> su, sp |-> sp]

GoodIdentity == Identity("bar", "K", <<>>, <<>>, "bar", "K", "")

\* <<cube standard name, table standard name>>
StandardNames == {<<"bar", "bar">>, <<"foo", "bar">>, <<"foo", "">>}

\* <<cube units, cube attribute invalid_units, table units>>
UnitInputs ==
    {<<"K", <<>>, "K">>, <<"degC", <<>>, "K">>, <<"m", <<>>, "K">>,
     <<"K", <<>>, "">>, <<"K", <<"other">>, "K">>,
     <<"unknown", <<"psu">>, "psu">>, <<"unknown", <<"PSU">>, "psu">>,
     <<"unknown", <<"psu">>, "PSU">>, <<"unknown", <<"psu">>, "K">>,
     <<"unknown", <<"psu">>, "">>, <<"unknown", <<"other">>, "psu">>,
     <<"1", <<>>, "psu">>, <<"1.0", <<>>, "PSU">>, <<"K", <<>>, "psu">>}

\* <<cube attribute positive, table positive>>
PositiveInputs ==
    {<<<<>>, "">>, <<<<>>, "up">>, <<<<"up">>, "up">>, <<<<"down">>, "up">>}

IdentityInputs ==
    {Identity(n[1], u[1], u[2], <<>>, n[2], u[3], "") :
        n \in StandardNames, u \in UnitInputs}
    \cup {Identity(n[1], u[1], u[2], q[1], n[2], u[3], q[2]) :
            n \in StandardNames, q \in PositiveInputs,
            u \in {<<"K", <<>>, "K">>, <<"m", <<>>, "K">>}}

\* a few of them, to go with the other inputs
FewIdentities ==
    {GoodIdentity,
     Identity("foo", "K", <<>>, <<>>, "bar", "K", ""),
     Identity("bar", "degC", <<>>, <<>>, "bar", "K", "up")}

\* --- what the caller may vary about the coordinates: the table's coordinates
\* (spec), whether the cube has a time axis, its other dimension coordinates,
\* its dimensions without a coordinate, its auxiliary coordinates and the
\* names of the categorised coordinates it already carries
Structure(spec, time, dim_coords, anonymous, aux_coords, aux) ==
    [spec |-> spec, time |-> time, dim_coords |-> dim_coords,
     anonymous |-> anonymous, aux_coords |-> aux_coords, aux |-> aux]

Grid(lat_info, lat, lon) ==
    Structure(<<TimeInfo, lat_info, LonInfo>>, TRUE, <<lat, lon>>, 0, <<>>, {})

GoodStructure == Grid(LatInfo, GoodLat, GoodLon)

LatInputs ==
    {GoodLat,
     [GoodLat EXCEPT !.points = <<30, 0, -30>>],
     [GoodLat EXCEPT !.points = <<0>>],
     [GoodLat EXCEPT !.points = <<0, 60>>],
     [GoodLat EXCEPT !.points = <<-100, 0, 30>>],
     [GoodLat EXCEPT !.points = <<100, 0, -30>>],
     [GoodLat EXCEPT !.units = "degrees"],
     [GoodLat EXCEPT !.units = "arc_minute", !.points = <<-1800, 0, 1800>>],
     [GoodLat EXCEPT !.units = "arc_minute", !.points = <<1800, 0, -1800>>],
     [GoodLat EXCEPT !.units = "m"],
     [GoodLat EXCEPT !.units = "unknown"],
     [GoodLat EXCEPT !.var_name = "latitude"],
     [GoodLat EXCEPT !.standard_name = "grid_latitude"],
     [GoodLat EXCEPT !.var_name = "y", !.standard_name = "grid_latitude"]}

LonInputs ==
    {GoodLon,
     [GoodLon EXCEPT !.points = <<-10, 110, 230>>],
     [GoodLon EXCEPT !.points = <<-130, -10, 110>>],
     [GoodLon EXCEPT !.points = <<-130, -70, -10>>],
     [GoodLon EXCEPT !.points = <<130, 250, 370>>],
     [GoodLon EXCEPT !.points = <<240, 120, 0>>],
     [GoodLon EXCEPT !.points = <<110, -10, -130>>],
     [GoodLon EXCEPT !.units = "degrees", !.points = <<-10, 110, 230>>],
     [GoodLon EXCEPT !.units = "m", !.points = <<-10, 110, 230>>]}

\* a level coordinate, the scalar height and the two-dimensional latitude and
\* longitude of an irregular grid (auxiliary coordinates over dimensions 1, 2)
Lev == Coord("lev", "atmosphere_sigma_coordinate", "1", "", <<1, 2>>, TRUE)

Height == Coord("height", "height", "m", "", <<2>>, FALSE)

Lat2d ==
    [Coord("lat", "latitude", "degrees_north", "", <<30, 10, -10, -30>>, FALSE)
        EXCEPT !.dims = <<1, 2>>]

Lon2d ==
    [Coord("lon", "longitude", "degrees_east", "", <<0, 120, 0, 120>>, FALSE)
        EXCEPT !.dims = <<1, 2>>]

StructureInputs ==
    {Grid(LatInfo, lat, GoodLon) : lat \in LatInputs}
    \cup {Grid(LatInfo, GoodLat, lon) : lon \in LonInputs}
    \cup {Grid(LatInfoRequested, lat, GoodLon) :
            lat \in {GoodLat, [GoodLat EXCEPT !.points = <<30, 0, -30>>],
                     [GoodLat EXCEPT !.points = <<0, 60>>]}}
    \cup {Structure(<<TimeInfo, LatInfo, LonInfo>>, TRUE, <<GoodLat, GoodLon>>, 0,
                    <<>>, aux) :
            aux \in {{"year"}, {"day_of_month", "month_number"},
                     Range(AuxiliarTimeCoordinates)}}
    \cup {\* no time axis, in the table and in the cube or in the cube only
          Structure(<<LatInfo, LonInfo>>, FALSE, <<GoodLat, GoodLon>>, 0, <<>>, {}),
          Structure(<<TimeInfo, LatInfo, LonInfo>>, FALSE, <<GoodLat, GoodLon>>, 0,
                    <<>>, {}),
          \* no latitude in the cube
          Structure(<<TimeInfo, LatInfo, LonInfo>>, TRUE, <<GoodLon>>, 0, <<>>, {}),
          \* a generic level, in the cube or not
          Structure(<<TimeInfo, LevInfo, LatInfo, LonInfo>>, TRUE,
                    <<Lev, GoodLat, GoodLon>>, 0, <<>>, {}),
          Structure(<<TimeInfo, LevInfo, LatInfo, LonInfo>>, TRUE,
                    <<GoodLat, GoodLon>>, 0, <<>>, {}),
          \* a scalar coordinate
          Structure(<<TimeInfo, LatInfo, LonInfo, HeightInfo>>, TRUE,
                    <<GoodLat, GoodLon>>, 0, <<Height>>, {}),
          \* a dimension the table does not know
          Structure(<<TimeInfo, LatInfo, LonInfo>>, TRUE, <<GoodLat, GoodLon>>, 1,
                    <<>>, {}),
          \* an irregular grid
          Structure(<<TimeInfo, LatInfo, LonInfo>>, TRUE, <<>>, 2, <<Lat2d, Lon2d>>,
                    {})}

FewStructures ==
    {GoodStructure,
     Grid(LatInfo, [GoodLat EXCEPT !.points = <<30, 0, -30>>],
          [GoodLon EXCEPT !.points = <<240, 120, 0>>]),
     Grid(LatInfoRequested, [GoodLat EXCEPT !.units = "m"], GoodLon),
     Structure(<<TimeInfo, LatInfo, LonInfo>>, TRUE,
               <<GoodLat, [GoodLon EXCEPT !.points = <<-10, 110, 230>>]>>, 1,
               <<>>, {"year"})}

\* --- what the caller may vary about time: the time coordinate of the cube,
\* the frequency of the table's variable and the frequency argument of the
\* constructor (<<>> for None)
Time(coord, var_frequency, frequency_arg) ==
    [coord |-> coord, var_frequency |-> var_frequency,
     frequency_arg |-> frequency_arg]

GoodTimeInput == Time(GoodTime, "mon", <<>>)

\* the point that lies d thousandths of a day after 1950-1-1, in the given
\* units
time_point(d, units, calendar) ==
    CASE units = "hours since 1950-1-1" -> d * 24
      [] units = "days since 1949-1-1" -> d + 1000 * YearLen(calendar, 1949)
      [] OTHER -> d

\* strictly increasing sequences of at most MaxTimeLen of the given numbers
RECURSIVE Increasing(_, _)
Increasing(S, n) ==
    IF n = 0 THEN {<<>>}
    ELSE LET shorter == Increasing(S, n - 1)
         IN shorter \cup
            {Append(q, x) : q \in {r \in shorter : Len(r) = n - 1},
                            x \in S}

StrictlyIncreasing(q) == \A k \in 1..(Len(q) - 1) : q[k] < q[k + 1]

Series(S) ==
    {q \in Increasing(S, MaxTimeLen) : Len(q) >= 1 /\ StrictlyIncreasing(q)}

\* <<units, calendar>> of the time coordinate
TimeUnitInputs ==
    {<<"days since 1950-1-1 00:00:00", "gregorian">>,
     <<"hours since 1950-1-1", "standard">>,
     <<"days since 1949-1-1", "360_day">>,
     <<"days", "noleap">>}

TimeCoord(days, units, calendar) ==
    Coord("time", "time", units, calendar,
          [k \in 1..Len(days) |-> time_point(days[k], units, calendar)], TRUE)

\* days of 1950 and 1951 around the middle and the end of a month
MonthlyDays == {15000, 30000, 45000, 74000, 349000, 380000, 410000}

\* days a year apart and less
YearlyDays == {15000, 349000, 380000, 745000}

\* days a day apart, a thousandth more and a thousandth less
DailyDays == {0, 999, 1000, 2000, 2001, 2998, 3002}

\* days ten years apart (3652 days) and more
DecadalDays == {0, 3599998, 3599999, 3652000, 7312001, 7312002}

\* days three hours apart (125 thousandths of a day) and more
HourlyDays == {0, 124, 125, 250, 376, 377}

\* days an hour apart (41.67 thousandths of a day), a thousandth more and two
SubHourlyDays == {0, 42, 43, 85}

TimeInputs ==
    {Time(TimeCoord(q, u[1], u[2]), "mon", <<>>) :
        q \in Series(MonthlyDays), u \in TimeUnitInputs}
    \cup {Time(TimeCoord(q, u[1], u[2]), "yr", <<>>) :
            q \in Series(YearlyDays),
            u \in {<<"days since 1950-1-1 00:00:00", "all_leap">>,
                   <<"days", "gregorian">>}}
    \cup {Time(TimeCoord(q, "days since 1950-1-1 00:00:00", "noleap"), "mon",
               <<"day">>) : q \in Series(DailyDays)}
    \cup {Time(TimeCoord(q, "days since 1950-1-1 00:00:00", "360_day"), "dec",
               <<>>) : q \in Series(DecadalDays)}
    \cup {Time(TimeCoord(q, "hours since 1950-1-1", "gregorian"), f, <<>>) :
            q \in Series(HourlyDays), f \in {"3hr", "subhr"}}
    \cup {Time(TimeCoord(q, "hours since 1950-1-1", "gregorian"), "subhr", <<>>) :
            q \in Series(SubHourlyDays) \cup {<<1, 0>>, <<2, 0>>}}
    \cup {Time(TimeCoord(q, "days", "noleap"), "mon", <<"day">>) :
            q \in {<<0, 1000>>, <<0, 1001, 2003>>}}
    \cup {Time(TimeCoord(<<15000, 45000>>, u[1], u[2]), f, <<>>) :
            u \in TimeUnitInputs, f \in {"fx", "monC", "6hr"}}

FewTimes ==
    {GoodTimeInput,
     Time([GoodTime EXCEPT !.points = Reverse(@)], "mon", <<>>),
     Time(TimeCoord(<<15000, 74000, 410000>>, "hours since 1950-1-1", "standard"),
          "mon", <<>>),
     Time(TimeCoord(<<15000, 45000>>, "days", "gregorian"), "mon", <<>>)}

\* the cube, the variable and the frequency argument the constructor is given
Input(identity, structure, time) ==
    [cube |-> Cube(identity.cs, identity.cu, identity.iu, identity.cp,
                   (IF structure.time THEN <<time.coord>> ELSE <<>>)
                       \o structure.dim_coords,
                   structure.anonymous, structure.aux_coords, structure.aux),
     cmor_var |-> VariableInfo(identity.ss, identity.su, identity.sp,
                               time.var_frequency, structure.spec),
     frequency_arg |-> time.frequency_arg]

\* one of the three is varied widely, the other two among a few
Inputs ==
    {Input(i, s, t) : i \in IdentityInputs, s \in {GoodStructure},
                      t \in {GoodTimeInput}}
    \cup {Input(i, s, t) : i \in {GoodIdentity}, s \in StructureInputs,
                           t \in {GoodTimeInput}}
    \cup {Input(i, s, t) : i \in {GoodIdentity}, s \in {GoodStructure},
                           t \in TimeInputs}
    \cup {Input(i, s, t) : i \in FewIdentities, s \in FewStructures,
                           t \in FewTimes}
    \cup {\* no time axis, and the frequencies
          Input(GoodIdentity,
                Structure(<<LatInfo, LonInfo>>, FALSE, <<GoodLat, GoodLon>>, 0,
                          <<>>, {}),
                Time(GoodTime, f, <<>>)) : f \in {"yr", "day", "3hr", "hr", "fx"}}

\* ------------------------------------------------------------------ actions
\* What every statement of a call does with the state its sub-check leaves:
\* an exception ends the call, otherwise the next statement is `next`
\* ("idle": the method returns self._cube).
Step(s, name, next, log) ==
    /\ cube' = s.cube
    /\ errors' = s.errors
    /\ warnings' = s.warnings
    /\ printed' = s.printed
    /\ nreported' = s.nreported
    /\ scanned' = s.scanned
    /\ logged' = log
    /\ trace' = Append(trace, name)
    /\ pc' = IF s.exc # "" THEN "idle" ELSE next
    /\ outcome' = IF s.exc # "" THEN s.exc
                  ELSE IF next = "idle" THEN "returned" ELSE outcome
    /\ raised' = s.raised
    /\ UNCHANGED <<failerr, cmor_var, frequency, automatic_fixes, phase, start,
                   ctor_cube, calls, fresh, entry, masking>>

\* the caller calls a method of the checker
Call(method, first) ==
    /\ pc = "idle"
    /\ calls < MaxCalls
    /\ pc' = first
    /\ phase' = method
    /\ outcome' = "running"
    /\ raised' = <<>>
    /\ logged' = <<>>
    /\ printed' = <<>>
    /\ trace' = <<>>
    /\ nreported' = 0
    /\ scanned' = 0
    /\ start' = [cube |-> cube, errors |-> errors, warnings |-> warnings,
                 outcome |-> outcome, phase |-> phase, fresh |-> fresh]
    /\ calls' = calls + 1
    /\ fresh' = FALSE
    /\ UNCHANGED <<cube, failerr, errors, warnings, cmor_var, frequency,
                   automatic_fixes, ctor_cube, entry, masking>>

\* CMORCheck.check_metadata is called
CallCheckMetadata == Call("metadata", "check_var_metadata")

\* CMORCheck.check_data is called
CallCheckData == Call("data", "convert_units")

\* CMORCheck.__init__: a new checker for the cube the last one worked on, with
\* the same variable, frequency and flags
Construct ==
    /\ pc = "idle"
    /\ ~fresh
    /\ calls < MaxCalls
    /\ errors' = <<>>
    /\ warnings' = <<>>
    /\ ctor_cube' = cube
    /\ fresh' = TRUE
    /\ UNCHANGED <<cube, failerr, cmor_var, frequency, automatic_fixes, pc, phase,
                   outcome, raised, logged, printed, trace, nreported, scanned,
                   start, calls, entry, masking>>

\* check_metadata, statement by statement
CheckVarMetadata ==
    /\ pc = "check_var_metadata"
    /\ Step(check_var_metadata(Running), "check_var_metadata",
            "check_fill_value", logged)

CheckFillValue ==
    /\ pc = "check_fill_value"
    /\ Step(check_fill_value(Running), "check_fill_value", "check_dim_names",
            logged)

CheckDimNames ==
    /\ pc = "check_dim_names"
    /\ Step(check_dim_names(Running), "check_dim_names", "check_coords", logged)

CheckCoords ==
    /\ pc = "check_coords"
    /\ Step(check_coords(Running), "check_coords", "check_time_coord", logged)

CheckTimeCoord ==
    /\ pc = "check_time_coord"
    /\ Step(check_time_coord(Running), "check_time_coord", "check_rank", logged)

CheckRank ==
    /\ pc = "check_rank"
    /\ Step(check_rank(Running), "check_rank", "report_warnings", logged)

\* CMORCheck.report_warnings(logger), of either method
ReportWarnings ==
    /\ pc = "report_warnings"
    /\ Step(Running, "report_warnings", "report_errors",
            IF has_warnings(Running) THEN Append(logged, warnings) ELSE logged)

\* CMORCheck.report_errors(), of either method; check_data returns after it
ReportErrors ==
    /\ pc = "report_errors"
    /\ Step(report_errors(Running), "report_errors",
            IF phase = "metadata" THEN "add_auxiliar_time_coordinates"
            ELSE "idle", logged)

AddAuxiliarTimeCoordinates ==
    /\ pc = "add_auxiliar_time_coordinates"
    /\ Step(add_auxiliar_time_coordinates(Running),
            "add_auxiliar_time_coordinates", "idle", logged)

\* check_data, statement by statement
ConvertUnits ==
    /\ pc = "convert_units"
    /\ Step(convert_units(Running), "convert_units", "check_coords_data", logged)

CheckCoordsData ==
    /\ pc = "check_coords_data"
    /\ Step(check_coords_data(Running), "check_coords_data", "report_warnings",
            logged)

Next ==
    \/ CallCheckMetadata
    \/ CallCheckData
    \/ Construct
    \/ CheckVarMetadata
    \/ CheckFillValue
    \/ CheckDimNames
    \/ CheckCoords
    \/ CheckTimeCoord
    \/ CheckRank
    \/ ReportWarnings
    \/ ReportErrors
    \/ AddAuxiliarTimeCoordinates
    \/ ConvertUnits
    \/ CheckCoordsData

\* mask_landsea has not been called
NoMasking ==
    [pc |-> "idle", outcome |-> "none",
     grid |-> [ndim |-> 0, ny |-> 0, nx |-> 0], ntime |-> 0,
     data_mask |-> [from |-> "", cells |-> <<>>],
     fx_files |-> <<>>, mask_out |-> "", fx_cubes |-> <<>>, read |-> <<>>,
     debug |-> <<>>]

\* no entry point has been called
NoEntry ==
    [fn |-> "none", stage |-> "idle", outcome |-> "none",
     args |-> [table |-> "", mip |-> "", short_name |-> "", frequency |-> ""],
     built |-> 0, ran |-> 0, given |-> -1, returned |-> -1]

\* CMORCheck.__init__ on the cube, the variable and the flags of the caller
Init ==
    \E input \in Inputs :
        /\ cube = input.cube
        /\ ctor_cube = input.cube
        /\ cmor_var = input.cmor_var
        /\ frequency = IF input.frequency_arg = <<>>
                       THEN input.cmor_var.frequency
                       ELSE input.frequency_arg[1]
        /\ failerr \in BOOLEAN
        /\ automatic_fixes \in BOOLEAN
        /\ errors = <<>>
        /\ warnings = <<>>
        /\ pc = "idle"
        /\ phase = "none"
        /\ outcome = "none"
        /\ raised = <<>>
        /\ logged = <<>>
        /\ printed = <<>>
        /\ trace = <<>>
        /\ nreported = 0
        /\ scanned = 0
        /\ start = [cube |-> input.cube, errors |-> <<>>, warnings |-> <<>>,
                    outcome |-> "none", phase |-> "none", fresh |-> TRUE]
        /\ calls = 0
        /\ fresh = TRUE
        /\ entry = NoEntry
        /\ masking = NoMasking

Spec == Init /\ [][Next]_vars

\* ------------------------------------------------------------ entry points
\* the variables of the tables (cmor/table.py): the primary table knows tas,
\* the custom table knows tas under another definition and rlut
TableTas ==
    VariableInfo("bar", "K", "", "mon", <<TimeInfo, LatInfo, LonInfo>>)

CustomTas ==
    VariableInfo("", "K", "", "mon", <<TimeInfo, LatInfo, LonInfo>>)

CustomRlut ==
    VariableInfo("bar", "K", "up", "mon", <<TimeInfo, LatInfo, LonInfo>>)

\* CMOR_TABLES: the ids of the known tables
CMOR_TABLES == {"CMIP5", "custom"}

\* CMOR_TABLES[table].get_variable(mip, short_name): <<>> for None
get_variable(table, mip, short_name) ==
    CASE table = "CMIP5" /\ mip = "Amon" /\ short_name = "tas" -> <<TableTas>>
      [] table = "custom" /\ mip = "Amon" /\ short_name = "tas" -> <<CustomTas>>
      [] table = "custom" /\ mip = "Amon" /\ short_name = "rlut" -> <<CustomRlut>>
      [] OTHER -> <<>>

\* _get_cmor_checker that looks in the table it is given only
get_cmor_checker_one_table(args) ==
    IF args.table \notin CMOR_TABLES
    THEN [exc |-> "NotImplementedError", var_info |-> <<>>,
          fail_on_error |-> TRUE, automatic_fixes |-> FALSE]
    ELSE [exc |-> "",
          var_info |-> get_variable(args.table, args.mip, args.short_name),
          fail_on_error |-> TRUE, automatic_fixes |-> FALSE]

\* _get_cmor_checker, called with the defaults of fail_on_error and
\* automatic_fixes: the exception it raises, or the arguments its _checker
\* gives to CMORCheck
get_cmor_checker(args) ==
    IF args.table \notin CMOR_TABLES
    THEN [exc |-> "NotImplementedError", var_info |-> <<>>,
          fail_on_error |-> TRUE, automatic_fixes |-> FALSE]
    ELSE LET var_info == get_variable(args.table, args.mip, args.short_name)
         IN [exc |-> "",
             var_info |-> IF var_info = <<>>
                          THEN get_variable("custom", args.mip, args.short_name)
                          ELSE var_info,
             fail_on_error |-> TRUE, automatic_fixes |-> FALSE]

\* the arguments the entry points are called with
Args(table, mip, short_name, freq) ==
    [table |-> table, mip |-> mip, short_name |-> short_name, frequency |-> freq]

EntryArgs ==
    {Args("CMIP5", "Amon", "tas", "mon"), Args("CMIP5", "Amon", "rlut", "mon"),
     Args("custom", "Amon", "tas", "day"), Args("CMIP5", "Amon", "nope", "mon"),
     Args("CMIP7", "Amon", "tas", "mon")}

\* checker(cube).check_metadata() / checker(cube).check_data(): CMORCheck is
\* built on the cube and the method is entered
BuildAndCall(checker, freq, method, first) ==
    /\ failerr' = checker.fail_on_error
    /\ automatic_fixes' = checker.automatic_fixes
    /\ cmor_var' = checker.var_info[1]
    /\ frequency' = freq
    /\ errors' = <<>>
    /\ warnings' = <<>>
    /\ ctor_cube' = cube
    /\ pc' = first
    /\ phase' = method
    /\ outcome' = "running"
    /\ raised' = <<>>
    /\ logged' = <<>>
    /\ printed' = <<>>
    /\ trace' = <<>>
    /\ nreported' = 0
    /\ scanned' = 0
    /\ start' = [cube |-> cube, errors |-> <<>>, warnings |-> <<>>,
                 outcome |-> outcome, phase |-> phase, fresh |-> TRUE]
    /\ calls' = calls + 1
    /\ fresh' = FALSE
    /\ UNCHANGED <<cube, masking>>

\* the first two statements of an entry point: the checker is got and used.
\* A table without the variable gives CMORCheck the variable None, and the
\* first statement of either method that reads it raises AttributeError.
Enter(fn, method, first) ==
    /\ pc = "idle"
    /\ entry.stage = "idle"
    /\ calls < MaxCalls
    /\ \E args \in EntryArgs :
          LET checker == get_cmor_checker(args)
              called == [fn |-> fn, stage |-> "running", outcome |-> "running",
                         args |-> args, built |-> 1, ran |-> 1,
                         given |-> cube.id, returned |-> -1]
          IN IF checker.exc # ""
             THEN /\ entry' = [called EXCEPT !.stage = "idle",
                                             !.outcome = checker.exc,
                                             !.built = 0, !.ran = 0]
                  /\ UNCHANGED <<cube, failerr, errors, warnings, cmor_var,
                                 frequency, automatic_fixes, pc, phase, outcome,
                                 raised, logged, printed, trace, nreported,
                                 scanned, start, ctor_cube, calls, fresh,
                                 masking>>
             ELSE IF checker.var_info = <<>>
             THEN /\ entry' = [called EXCEPT !.stage = "idle",
                                             !.outcome = "AttributeError"]
                  /\ UNCHANGED <<cube, failerr, errors, warnings, cmor_var,
                                 frequency, automatic_fixes, pc, phase, outcome,
                                 raised, logged, printed, trace, nreported,
                                 scanned, start, ctor_cube, calls, fresh,
                                 masking>>
             ELSE /\ entry' = called
                  /\ BuildAndCall(checker, args.frequency, method, first)

\* cmor_check_metadata is called
CmorCheckMetadata == Enter("cmor_check_metadata", "metadata", "check_var_metadata")

\* cmor_check_data is called
CmorCheckData == Enter("cmor_check_data", "data", "convert_units")

\* cmor_check is called: its first statement is cmor_check_metadata
CmorCheck == Enter("cmor_check", "metadata", "check_var_metadata")

\* cmor_check: cmor_check_metadata has returned, cmor_check_data is called
CmorCheckSecond ==
    /\ pc = "idle"
    /\ entry.stage = "running"
    /\ entry.fn = "cmor_check"
    /\ phase = "metadata"
    /\ outcome = "returned"
    /\ entry' = [entry EXCEPT !.built = @ + 1, !.ran = @ + 1]
    /\ BuildAndCall(get_cmor_checker(entry.args), entry.args.frequency, "data",
                    "convert_units")

\* the entry point ends: `return cube`, or the exception of the method
EntryReturn ==
    /\ pc = "idle"
    /\ entry.stage = "running"
    /\ ~(entry.fn = "cmor_check" /\ phase = "metadata" /\ outcome = "returned")
    /\ entry' = [entry EXCEPT
                    !.stage = "idle",
                    !.outcome = outcome,
                    !.returned = IF outcome = "returned" THEN entry.given ELSE -1]
    /\ UNCHANGED <<cube, failerr, errors, warnings, cmor_var, frequency,
                   automatic_fixes, pc, phase, outcome, raised, logged, printed,
                   trace, nreported, scanned, start, ctor_cube, calls, fresh,
                   masking>>

NextEntry ==
    \/ CmorCheckMetadata
    \/ CmorCheckData
    \/ CmorCheck
    \/ CmorCheckSecond
    \/ EntryReturn
    \/ CheckVarMetadata
    \/ CheckFillValue
    \/ CheckDimNames
    \/ CheckCoords
    \/ CheckTimeCoord
    \/ CheckRank
    \/ ReportWarnings
    \/ ReportErrors
    \/ AddAuxiliarTimeCoordinates
    \/ ConvertUnits
    \/ CheckCoordsData

\* the cubes the entry points are given
EntryCubes ==
    {Input(i, s, t).cube : i \in FewIdentities, s \in FewStructures, t \in FewTimes}
    \cup {Input(GoodIdentity, s, GoodTimeInput).cube :
             s \in {Grid(LatInfo, [GoodLat EXCEPT !.points = <<30, 0, -30>>],
                         GoodLon),
                    Grid(LatInfo, GoodLat,
                         [GoodLon EXCEPT !.points = <<-10, 110, 230>>])}}

\* a caller that holds a cube and no checker: what a checker's fields would
\* hold is of no account until an entry point builds one
InitEntry ==
    /\ cube \in EntryCubes
    /\ ctor_cube = cube
    /\ cmor_var \in {TableTas, CustomRlut}
    /\ frequency = "mon"
    /\ failerr \in BOOLEAN
    /\ automatic_fixes \in BOOLEAN
    /\ errors = <<>>
    /\ warnings = <<>>
    /\ pc = "idle"
    /\ phase = "none"
    /\ outcome = "none"
    /\ raised = <<>>
    /\ logged = <<>>
    /\ printed = <<>>
    /\ trace = <<>>
    /\ nreported = 0
    /\ scanned = 0
    /\ start = [cube |-> cube, errors |-> <<>>, warnings |-> <<>>,
                outcome |-> "none", phase |-> "none", fresh |-> TRUE]
    /\ calls = 0
    /\ fresh = TRUE
    /\ entry = NoEntry
    /\ masking = NoMasking

SpecEntry == InitEntry /\ [][NextEntry]_vars

\* ------------------------------------------- the checker's public reporting
\* the replacement fields of the templates a caller reports with
format_fields(message) ==
    CASE message = "{}: unexpected {}" -> 2
      [] message = "{}: unexpected" -> 1
      [] OTHER -> 0

\* message.format(*args): the template with the arguments its fields take;
\* IndexError (<<>> here) when there are fewer arguments than fields
format(message, args) ==
    IF Len(args) < format_fields(message) THEN <<>>
    ELSE <<message>> \o SubSeq(args, 1, format_fields(message))

\* what a call of the caller starts on
Called ==
    [cube |-> cube, errors |-> errors, warnings |-> warnings, exc |-> "",
     raised |-> <<>>, printed |-> <<>>, nreported |-> 0, scanned |-> 0]

\* a method of one statement is called by the caller and ends
Public(s, method, log) ==
    /\ pc = "idle"
    /\ calls < MaxCalls
    /\ cube' = s.cube
    /\ errors' = s.errors
    /\ warnings' = s.warnings
    /\ printed' = s.printed
    /\ nreported' = s.nreported
    /\ scanned' = s.scanned
    /\ raised' = s.raised
    /\ logged' = log
    /\ trace' = <<method>>
    /\ phase' = method
    /\ outcome' = IF s.exc # "" THEN s.exc ELSE "returned"
    /\ start' = [cube |-> cube, errors |-> errors, warnings |-> warnings,
                 outcome |-> outcome, phase |-> phase, fresh |-> fresh]
    /\ calls' = calls + 1
    /\ fresh' = FALSE
    /\ UNCHANGED <<failerr, cmor_var, frequency, automatic_fixes, pc, ctor_cube,
                   entry, masking>>

\* <<message, args>> of the caller's reports
PublicReports ==
    {<<"{}: unexpected {}", <<"tas", "values">>>>,
     <<"{}: unexpected", <<"tas", "values">>>>,
     <<"{}: unexpected", <<>>>>,
     <<"unexpected", <<>>>>}

\* CMORCheck.report_error(message, *args), called by the caller
CallReportError ==
    \E r \in PublicReports :
        Public(IF format(r[1], r[2]) = <<>> THEN raise(Called, "IndexError")
               ELSE report_error(Called, format(r[1], r[2])),
               "report_error", <<>>)

\* CMORCheck.report_warning(message, *args), called by the caller
CallReportWarning ==
    \E r \in PublicReports :
        Public(IF format(r[1], r[2]) = <<>> THEN raise(Called, "IndexError")
               ELSE report_warning(Called, format(r[1], r[2])),
               "report_warning", <<>>)

\* CMORCheck.report_errors(), called by the caller
CallReportErrors == Public(report_errors(Called), "report_errors", <<>>)

\* CMORCheck.report_warnings(logger), called by the caller
CallReportWarnings ==
    Public(Called, "report_warnings",
           IF has_warnings(Called) THEN <<warnings>> ELSE <<>>)

NextPublic ==
    \/ CallCheckMetadata
    \/ CallCheckData
    \/ CallReportError
    \/ CallReportWarning
    \/ CallReportErrors
    \/ CallReportWarnings
    \/ Construct
    \/ CheckVarMetadata
    \/ CheckFillValue
    \/ CheckDimNames
    \/ CheckCoords
    \/ CheckTimeCoord
    \/ CheckRank
    \/ ReportWarnings
    \/ ReportErrors
    \/ AddAuxiliarTimeCoordinates
    \/ ConvertUnits
    \/ CheckCoordsData

\* the cubes and variables the checkers of such a caller are built on
PublicInputs ==
    {Input(i, s, t) : i \in FewIdentities, s \in FewStructures, t \in FewTimes}

\* CMORCheck.__init__ on one of them
InitPublic ==
    \E input \in PublicInputs :
        /\ cube = input.cube
        /\ ctor_cube = input.cube
        /\ cmor_var = input.cmor_var
        /\ frequency = IF input.frequency_arg = <<>>
                       THEN input.cmor_var.frequency
                       ELSE input.frequency_arg[1]
        /\ failerr \in BOOLEAN
        /\ automatic_fixes \in BOOLEAN
        /\ errors = <<>>
        /\ warnings = <<>>
        /\ pc = "idle"
        /\ phase = "none"
        /\ outcome = "none"
        /\ raised = <<>>
        /\ logged = <<>>
        /\ printed = <<>>
        /\ trace = <<>>
        /\ nreported = 0
        /\ scanned = 0
        /\ start = [cube |-> input.cube, errors |-> <<>>, warnings |-> <<>>,
                    outcome |-> "none", phase |-> "none", fresh |-> TRUE]
        /\ calls = 0
        /\ fresh = TRUE
        /\ entry = NoEntry
        /\ masking = NoMasking

SpecPublic == InitPublic /\ [][NextPublic]_vars

\* ------------------------------------------------------------ mask_landsea

\* the shape of coord('longitude').points and of coord('latitude').points on a
\* grid: one-dimensional axes on a regular grid, the two-dimensional field of
\* the cells on an irregular one
points_shape(grid, axis) ==
    IF grid.ndim = 1
    THEN (IF axis = "longitude" THEN <<grid.nx>> ELSE <<grid.ny>>)
    ELSE <<grid.ny, grid.nx>>

\* the longitudes and the latitudes of the mask have the shapes of those of the
\* cube
check_dims_shapes(grid, mask_grid) ==
    /\ points_shape(grid, "longitude") = points_shape(mask_grid, "longitude")
    /\ points_shape(grid, "latitude") = points_shape(mask_grid, "latitude")

\* _check_dims: ndim of the points, and len() of the points, which is their
\* first dimension
check_dims(grid, mask_grid) ==
    LET x_dim == Len(points_shape(grid, "longitude"))
        y_dim == Len(points_shape(grid, "latitude"))
        mx_dim == Len(points_shape(mask_grid, "longitude"))
        my_dim == Len(points_shape(mask_grid, "latitude"))
        len_x == points_shape(grid, "longitude")[1]
        len_y == points_shape(grid, "latitude")[1]
        len_mx == points_shape(mask_grid, "longitude")[1]
        len_my == points_shape(mask_grid, "latitude")[1]
    IN x_dim = mx_dim /\ y_dim = my_dim /\ len_x = len_mx /\ len_y = len_my

\* _get_fx_mask: the cells the fx field masks out, for its percentages
get_fx_mask(fx_data, fx_option, mask_type) ==
    [k \in DOMAIN fx_data |->
        IF mask_type = "sftlf"
        THEN (IF fx_option = "land" THEN fx_data[k] > 50
              ELSE IF fx_option = "sea" THEN fx_data[k] <= 50 ELSE FALSE)
        ELSE IF mask_type = "sftof"
        THEN (IF fx_option = "land" THEN fx_data[k] < 50
              ELSE IF fx_option = "sea" THEN fx_data[k] >= 50 ELSE FALSE)
        ELSE IF mask_type = "sftgif"
        THEN (IF fx_option = "ice" THEN fx_data[k] > 50
              ELSE IF fx_option = "landsea" THEN fx_data[k] <= 50 ELSE FALSE)
        ELSE FALSE]

\* np.broadcast_to(fx_mask, var_mask.shape): the shapes are aligned at their
\* last dimension, and each dimension of the mask is 1 or that of the data
broadcastable(shape, to) ==
    /\ Len(shape) <= Len(to)
    /\ \A d \in 1..Len(shape) :
          shape[d] = 1 \/ shape[d] = to[Len(to) - Len(shape) + d]

\* _apply_fx_mask on data without a mask of its own: the new mask of the data
\* (that of the fx field on every time step), or the ValueError of numpy
apply_fx_mask(fx_mask, fx_shape, var_shape) ==
    IF broadcastable(fx_shape, var_shape)
    THEN [exc |-> "", data_mask |-> [from |-> "fx", cells |-> fx_mask]]
    ELSE [exc |-> "ValueError", data_mask |-> [from |-> "", cells |-> <<>>]]

\* the Natural Earth masks
shapefiles(mask_out) ==
    IF mask_out = "land" THEN "ne_10m_land.shp" ELSE "ne_50m_ocean.shp"

\* fx_cubes[fx_root] = cube: a later file of the same root replaces the earlier
dict_set(fx_cubes, fx_root, fx_cube) ==
    IF \E j \in DOMAIN fx_cubes : fx_cubes[j].root = fx_root
    THEN [j \in DOMAIN fx_cubes |->
             IF fx_cubes[j].root = fx_root
             THEN [root |-> fx_root, cube |-> fx_cube] ELSE fx_cubes[j]]
    ELSE Append(fx_cubes, [root |-> fx_root, cube |-> fx_cube])

\* 'sftlf' in fx_cubes.keys()
has_key(fx_cubes, fx_root) == \E j \in DOMAIN fx_cubes : fx_cubes[j].root = fx_root

\* fx_cubes['sftlf']
dict_get(fx_cubes, fx_root) ==
    fx_cubes[CHOOSE j \in DOMAIN fx_cubes : fx_cubes[j].root = fx_root].cube

\* the shape of the data of the cube: time, latitude, longitude
cube_shape(m) == <<m.ntime, m.grid.ny, m.grid.nx>>

\* the other variables of a state of mask_landsea
CheckerUnchanged ==
    UNCHANGED <<cube, failerr, errors, warnings, cmor_var, frequency,
                automatic_fixes, pc, phase, outcome, raised, logged, printed,
                trace, nreported, scanned, start, ctor_cube, calls, fresh, entry>>

\* mask_landsea(cube, fx_files, mask_out) is entered: `if fx_files:`
MaskLandsea ==
    /\ masking.pc = "mask_landsea"
    /\ masking' = [masking EXCEPT
                      !.pc = IF masking.fx_files # <<>> THEN "load_cube"
                             ELSE "mask_with_shp",
                      !.outcome = "running"]
    /\ CheckerUnchanged

\* one turn of the loop over fx_files: the file is loaded under its root
LoadCube ==
    /\ masking.pc = "load_cube"
    /\ LET fx_file == masking.fx_files[Len(masking.read) + 1]
       IN masking' = [masking EXCEPT
             !.fx_cubes = dict_set(@, fx_file.root,
                                   [grid |-> fx_file.grid, data |-> fx_file.data]),
             !.read = Append(@, fx_file.root),
             !.pc = IF Len(masking.read) + 1 = Len(masking.fx_files)
                    THEN "apply_fx_mask" ELSE "load_cube"]
    /\ CheckerUnchanged

\* the mask of the fx cube of a root is laid on the data of the cube
ApplyRoot(fx_root) ==
    LET fx_cube == dict_get(masking.fx_cubes, fx_root)
        landsea_mask == get_fx_mask(fx_cube.data, masking.mask_out, fx_root)
        applied == apply_fx_mask(landsea_mask, <<fx_cube.grid.ny, fx_cube.grid.nx>>,
                                 cube_shape(masking))
    IN IF applied.exc # ""
       THEN masking' = [masking EXCEPT !.pc = "idle", !.outcome = applied.exc]
       ELSE masking' = [masking EXCEPT
               !.pc = "idle",
               !.outcome = "returned",
               !.data_mask = applied.data_mask,
               !.debug = Append(@, "Applying land-sea mask: " \o fx_root)]

\* the choice between the fx masks: sftlf first, then sftof, else the shapefile
ApplyFxMask ==
    /\ masking.pc = "apply_fx_mask"
    /\ IF /\ has_key(masking.fx_cubes, "sftlf")
          /\ check_dims(masking.grid, dict_get(masking.fx_cubes, "sftlf").grid)
       THEN ApplyRoot("sftlf")
       ELSE IF /\ has_key(masking.fx_cubes, "sftof")
               /\ check_dims(masking.grid, dict_get(masking.fx_cubes, "sftof").grid)
       THEN ApplyRoot("sftof")
       ELSE masking' = [masking EXCEPT !.pc = "mask_with_shp"]
    /\ CheckerUnchanged

\* no fx mask: the Natural Earth mask on a regular grid, ValueError otherwise
MaskWithShp ==
    /\ masking.pc = "mask_with_shp"
    /\ IF Len(points_shape(masking.grid, "longitude")) < 2
       THEN masking' = [masking EXCEPT
               !.pc = "idle",
               !.outcome = "returned",
               !.data_mask = [from |-> shapefiles(masking.mask_out),
                              cells |-> <<>>],
               !.debug = Append(@,
                   "Applying land-sea mask from Natural Earth shapefile")]
       ELSE masking' = [masking EXCEPT !.pc = "idle", !.outcome = "ValueError"]
    /\ CheckerUnchanged

NextMask ==
    \/ MaskLandsea
    \/ LoadCube
    \/ ApplyFxMask
    \/ MaskWithShp

\* the grids of the cubes and of the fx files: regular and irregular
RegularGrid(ny, nx) == [ndim |-> 1, ny |-> ny, nx |-> nx]

IrregularGrid(ny, nx) == [ndim |-> 2, ny |-> ny, nx |-> nx]

CubeGrids == {RegularGrid(2, 3), IrregularGrid(2, 3)}

FxGrids ==
    {RegularGrid(2, 3), RegularGrid(2, 2), RegularGrid(3, 3),
     IrregularGrid(2, 3), IrregularGrid(2, 2), IrregularGrid(3, 3)}

\* the percentages of an fx field on a grid, cell by cell: 0, 50, 100, 0, ...
FxData(grid) == [k \in 1..(grid.ny * grid.nx) |-> ((k - 1) % 3) * 50]

\* an fx file: the root is what its base name has before the first '_'
FxFile(fx_root, grid) == [root |-> fx_root, grid |-> grid, data |-> FxData(grid)]

FxRoots == {"sftlf", "sftof", "sftgif"}

\* the lists of fx files a call is given: none, one, or two of different
\* variables, in either order
FxFileLists ==
    {<<>>}
    \cup {<<FxFile(r, g)>> : r \in FxRoots, g \in FxGrids}
    \cup {<<FxFile(r[1], g[1]), FxFile(r[2], g[2])>> :
             r \in {q \in FxRoots \X FxRoots : q[1] # q[2]},
             g \in FxGrids \X FxGrids}

\* the calls of mask_landsea
MaskCalls ==
    {[NoMasking EXCEPT !.pc = "mask_landsea", !.grid = g, !.ntime = 2,
                       !.fx_files = f, !.mask_out = o] :
        g \in CubeGrids, f \in FxFileLists, o \in {"land", "sea"}}

\* a cube that passed the checks is given to mask_landsea
InitMask ==
    /\ masking \in MaskCalls
    /\ cube = Input(GoodIdentity, GoodStructure, GoodTimeInput).cube
    /\ ctor_cube = cube
    /\ cmor_var = Input(GoodIdentity, GoodStructure, GoodTimeInput).cmor_var
    /\ frequency = cmor_var.frequency
    /\ failerr = TRUE
    /\ automatic_fixes = FALSE
    /\ errors = <<>>
    /\ warnings = <<>>
    /\ pc = "idle"
    /\ phase = "none"
    /\ outcome = "none"
    /\ raised = <<>>
    /\ logged = <<>>
    /\ printed = <<>>
    /\ trace = <<>>
    /\ nreported = 0
    /\ scanned = 0
    /\ start = [cube |-> cube, errors |-> <<>>, warnings |-> <<>>,
                outcome |-> "none", phase |-> "none", fresh |-> TRUE]
    /\ calls = 0
    /\ fresh = TRUE
    /\ entry = NoEntry

SpecMask == InitMask /\ [][NextMask]_vars

\* ------------------------------------------------------------------- claims
\* the statements of check_metadata and of check_data, in order
MetadataOrder ==
    <<"check_var_metadata", "check_fill_value", "check_dim_names", "check_coords",
      "check_time_coord", "check_rank", "report_warnings", "report_errors",
      "add_auxiliar_time_coordinates">>

DataOrder ==
    <<"convert_units", "check_coords_data", "report_warnings", "report_errors">>

\* the six sub-checks of check_metadata
SubChecks == SubSeq(MetadataOrder, 1, 6)

IsPrefix(p, q) == Len(p) <= Len(q) /\ p = SubSeq(q, 1, Len(p))

\* the last call has ended, by a return or by an exception, and the checker
\* is still the one that ran it
Ended == pc = "idle" /\ outcome \notin {"none", "running"} /\ ~fresh

Count(seq, x) == Cardinality({k \in 1..Len(seq) : seq[k] = x})

\* C1: fail-fast mode.  With fail_on_error=true the first report_error of a
\* call raises CMORCheckError at once: the call has ended with that one
\* message, the sub-check that reported is the last one entered (it is a
\* sub-check, not the reporting at the end), nothing was appended to the error
\* list, and the categorised time coordinates were not attached.
C1_FailFast ==
    failerr =>
        /\ errors = <<>>
        /\ nreported <= 1
        /\ nreported = 1 =>
              /\ pc = "idle"
              /\ outcome = "CMORCheckError"
              /\ Len(raised) = 1
              /\ trace # <<>>
              /\ trace[Len(trace)] \in Range(SubChecks) \cup {"check_coords_data"}
              /\ IsPrefix(trace, IF phase = "metadata" THEN MetadataOrder
                                 ELSE DataOrder)
              /\ cube.aux = start.cube.aux

\* a fail-fast check_metadata raised in its per-coordinate check, after three
\* sub-checks that passed
C1_Witness ==
    /\ failerr
    /\ nreported = 1
    /\ outcome = "CMORCheckError"
    /\ phase = "metadata"
    /\ trace = SubSeq(MetadataOrder, 1, 4)

\* C2: collect-all mode.  With fail_on_error=false a check_metadata call that
\* has ended ran all six sub-checks, in order, whatever they reported; it
\* raised CMORCheckError if and only if the error list is not empty, at
\* report_errors, and the error raised carries the error list: what the list
\* held before the call followed by one message for each report of the call.
C2_CollectAll ==
    (~failerr /\ phase = "metadata" /\ Ended) =>
        /\ IsPrefix(SubChecks, trace)
        /\ (outcome = "CMORCheckError") <=> (errors # <<>>)
        /\ outcome = "CMORCheckError" =>
              /\ trace = SubSeq(MetadataOrder, 1, 8)
              /\ raised = errors
        /\ Len(errors) = Len(start.errors) + nreported
        /\ IsPrefix(start.errors, errors)

\* C3: order inside check_metadata.  The statements run in the order identity,
\* fill value, dimension names, coordinates, time, rank, warnings, errors,
\* auxiliary coordinates; the accumulated warnings have been logged once the
\* errors are reported, also when the call ends in CMORCheckError; and the
\* categorised coordinates are attached only by a call whose checker holds no
\* error, which then ends carrying all four, the ones the cube already had
\* included (they are not added again).
C3_Order ==
    (phase = "metadata" /\ ~fresh) =>
        /\ IsPrefix(trace, MetadataOrder)
        /\ ("report_warnings" \in Range(trace) /\ warnings # <<>>)
              => logged = <<warnings>>
        /\ ("report_warnings" \notin Range(trace) \/ warnings = <<>>)
              => logged = <<>>
        /\ cube.aux # start.cube.aux =>
              /\ errors = <<>>
              /\ nreported = 0
              /\ outcome = "returned"
        /\ (Ended /\ "add_auxiliar_time_coordinates" \in Range(trace)
                  /\ Found(coords_by_name(cube, "time", FALSE)))
              => /\ outcome = "returned"
                 /\ cube.aux = start.cube.aux \cup Range(AuxiliarTimeCoordinates)

\* a collect-all check_metadata logged its warnings and then raised its errors
C3_Witness ==
    /\ ~failerr
    /\ phase = "metadata"
    /\ outcome = "CMORCheckError"
    /\ logged # <<>>
    /\ raised # <<>>

\* a check_metadata that returned attached some of the categorised coordinates
\* to a cube that carried the others
C3_WitnessAux ==
    /\ phase = "metadata"
    /\ outcome = "returned"
    /\ start.cube.aux # {}
    /\ cube.aux # start.cube.aux

\* the messages this call has reported as errors: the one that raised in
\* fail-fast mode, the ones appended to the error list otherwise
Reported ==
    IF failerr THEN raised
    ELSE SubSeq(errors, Len(start.errors) + 1, Len(errors))

StrictlyDecreasing(q) ==
    Len(q) > 1 /\ \A k \in 1..(Len(q) - 1) : q[k] > q[k + 1]

\* C4: a coordinate the table stores increasing and the cube holds strictly
\* decreasing, once check_data has checked the coordinates.  Without automatic
\* fixes an error is reported (in fail-fast mode the call has raised); with
\* automatic fixes a coordinate of one dimension has been reversed together
\* with the data along its axis, no direction error was reported and checking
\* the coordinate again reports nothing and changes nothing; with automatic
\* fixes a coordinate of several dimensions is reported as an error and the
\* cube is not reversed.
C4_Direction ==
    (phase = "data" /\ ~fresh /\ "check_coords_data" \in Range(trace)) =>
        \A k \in 1..Len(cmor_var.coordinates) :
            LET info == cmor_var.coordinates[k]
                found == coords_by_var_name(start.cube, info.out_name, FALSE)
                i == The(found)
                before == start.cube.coords[i]
                multi == Len(before.dims) > 1
                message == <<"{}: is not {}", info.out_name, "increasing">>
                again == check_coord_monotonicity_and_direction(
                             Running, info, i, info.out_name)
            IN (/\ ~info.generic_level
                /\ info.stored_direction = "increasing"
                /\ Found(found)
                /\ StrictlyDecreasing(before.points)) =>
                   /\ (~automatic_fixes \/ multi) =>
                         /\ failerr => outcome = "CMORCheckError"
                         /\ ~failerr => message \in Range(Reported)
                         /\ cube.coords[i].points = before.points
                   /\ (automatic_fixes /\ ~multi) =>
                         /\ cube.coords[i].points = Reverse(before.points)
                         /\ cube.order[before.dims[1]]
                               = Reverse(start.cube.order[before.dims[1]])
                         /\ message \notin Range(Reported)
                         /\ again.exc = ""
                         /\ again.errors = errors
                         /\ again.cube = cube

\* the identity check of a check_metadata call has just run
AfterIdentityCheck ==
    phase = "metadata" /\ ~fresh /\ trace = <<"check_var_metadata">>

\* the cube came with the attribute invalid_units = psu, in any case
AttributePsu == attr_get(start.cube.attributes, "invalid_units") \in {"psu", "PSU"}

\* the table declares the units psu, in any case
DeclaredPsu == cmor_var.units \in {"psu", "PSU"}

\* C5 as the specification states it: with automatic fixes, psu on the table's
\* units or on the cube's invalid_units attribute always leaves, after the
\* identity check, a cube with a dimensionless unit and without the attribute.
C5_PsuEitherSide ==
    (AfterIdentityCheck /\ automatic_fixes /\ (DeclaredPsu \/ AttributePsu)) =>
        /\ UnitDim(cube.units) = "dimensionless"
        /\ cube.attributes.invalid_units = <<>>

\* the fail-fast identity check raised on the standard name, before the units
\* were looked at
RaisedOnStandardName ==
    /\ failerr
    /\ Truthy(cmor_var.standard_name)
    /\ start.cube.standard_name # cmor_var.standard_name

\* C5: what the identity check does about psu.  With automatic fixes a cube
\* that carries invalid_units = psu (in any case) has, after the identity
\* check, the units 1.0 and no invalid_units attribute, unless the check raised
\* on the standard name first; in every other case, psu in the table's units
\* included, the identity check leaves the cube as it found it.  Units psu in
\* the table only make the units test compare with dimensionless: a
\* dimensionless cube passes it and any other cube is reported.
C5_Psu ==
    AfterIdentityCheck =>
        LET fix == automatic_fixes /\ AttributePsu /\ ~RaisedOnStandardName
            message == <<"Variable {} units {} can not be converted to {}",
                         cube.var_name, cube.units, cmor_var.units>>
        IN /\ fix => /\ cube.units = "1.0"
                     /\ UnitDim(cube.units) = "dimensionless"
                     /\ cube.attributes.invalid_units = <<>>
                     /\ cube = [start.cube EXCEPT
                                   !.units = "1.0",
                                   !.attributes.invalid_units = <<>>]
           /\ ~fix => cube = start.cube
           /\ (DeclaredPsu /\ ~RaisedOnStandardName) =>
                 (message \in Range(Reported))
                     <=> (UnitDim(cube.units) # "dimensionless")

\* the identity check with automatic fixes made a cube with invalid_units = PSU
\* dimensionless
C5_Witness ==
    /\ AfterIdentityCheck
    /\ automatic_fixes
    /\ attr_get(start.cube.attributes, "invalid_units") = "PSU"
    /\ start.cube.units = "unknown"
    /\ cube.units = "1.0"
    /\ cube.attributes.invalid_units = <<>>

\* the calendar month a point of a time-reference coordinate lies in, counted
\* from the year 0
MonthIndex(p, units, calendar) ==
    LET date == num2date(p, units, calendar) IN 12 * date.year + date.month

\* the time check of a check_metadata call has just run on a time axis with
\* time-reference units, for the monthly frequency
AfterMonthlyTimeCheck ==
    /\ phase = "metadata"
    /\ ~fresh
    /\ trace # <<>>
    /\ trace[Len(trace)] = "check_time_coord"
    /\ frequency = "mon"
    /\ Found(coords_by_name(start.cube, "time", TRUE))
    /\ is_time_reference(
           start.cube.coords[The(coords_by_name(start.cube, "time", TRUE))].units)

FrequencyMessage == <<"{}: Frequency {} does not match input data", "time", "mon">>

\* the pairs of consecutive points of the time axis that do not lie in
\* consecutive calendar months
OffendingPairs ==
    LET time == start.cube.coords[The(coords_by_name(start.cube, "time", TRUE))]
        month(k) == MonthIndex(time.points[k], time.units, time.calendar)
    IN {k \in 1..(Len(time.points) - 1) : month(k + 1) # month(k) + 1}

\* C6: monthly frequency.  When every pair of consecutive points lies in
\* consecutive calendar months, December and the next January included, the
\* time check examines every pair and reports no frequency error; otherwise it
\* reports exactly one frequency error, at the first pair that does not, and
\* examines no pair after it.
C6_Monthly ==
    AfterMonthlyTimeCheck =>
        LET time == start.cube.coords[The(coords_by_name(start.cube, "time", TRUE))]
        IN /\ OffendingPairs = {} =>
                 /\ Count(Reported, FrequencyMessage) = 0
                 /\ scanned = Len(time.points) - 1
                 /\ outcome # "CMORCheckError"
           /\ OffendingPairs # {} =>
                 /\ Count(Reported, FrequencyMessage) = 1
                 /\ Reported[Len(Reported)] = FrequencyMessage
                 /\ scanned = CHOOSE k \in OffendingPairs :
                                 \A j \in OffendingPairs : k <= j
                 /\ failerr => outcome = "CMORCheckError"

\* a series of three points whose first pair is two months or more apart: one
\* error, and the second pair was not examined
C6_Witness ==
    /\ AfterMonthlyTimeCheck
    /\ Len(start.cube.coords[The(coords_by_name(start.cube, "time", TRUE))].points)
          = 3
    /\ 1 \in OffendingPairs
    /\ scanned = 1
    /\ Count(Reported, FrequencyMessage) = 1

\* a coordinate of the cube is what the table's entry asks for
CoordinateMatches(c, info) ==
    LET found == coords_by_var_name(c, info.out_name, FALSE)
        coord == c.coords[The(found)]
        n == Len(coord.points)
    IN /\ Found(found)
       /\ coord.standard_name = info.standard_name
       /\ IF Truthy(info.value) THEN coord.dims = <<>>
          ELSE coord.dim_coord /\ Len(coord.dims) = 1
       /\ IF info.out_name = "time"
          THEN /\ is_time_reference(coord.units)
               /\ frequency = "mon"
               /\ \A k \in 1..(n - 1) :
                      MonthIndex(coord.points[k + 1], coord.units, coord.calendar)
                          = MonthIndex(coord.points[k], coord.units,
                                       coord.calendar) + 1
          ELSE /\ coord.units = info.units
               /\ Given(info.valid_min) =>
                      \A k \in 1..n : coord.points[k] >= info.valid_min[1]
               /\ Given(info.valid_max) =>
                      \A k \in 1..n : coord.points[k] <= info.valid_max[1]
               /\ info.stored_direction = "increasing" =>
                      \A k \in 1..(n - 1) : coord.points[k] < coord.points[k + 1]
               /\ info.stored_direction = "decreasing" =>
                      \A k \in 1..(n - 1) : coord.points[k] > coord.points[k + 1]

\* the cube's units are convertible to the table's and its coordinates are
\* exactly the table's: every dimension has a dimension coordinate, and the
\* coordinates the table names are there as the table describes them
ExactlyMatches(c) ==
    /\ Truthy(cmor_var.standard_name) => c.standard_name = cmor_var.standard_name
    /\ Truthy(cmor_var.units) => is_convertible(c.units, get_effective_units)
    /\ Truthy(cmor_var.positive) => c.attributes.positive = <<cmor_var.positive>>
    /\ c.ndim = Cardinality({k \in 1..Len(cmor_var.coordinates) :
                                ~Truthy(cmor_var.coordinates[k].value)})
    /\ c.ndim = Cardinality({i \in 1..Len(c.coords) : c.coords[i].dim_coord})
    /\ \A k \in 1..Len(cmor_var.coordinates) :
           cmor_var.coordinates[k].generic_level
               \/ CoordinateMatches(c, cmor_var.coordinates[k])

\* C7: clean cubes.  For a cube whose units are convertible to the table's and
\* whose coordinates exactly match the table, check_metadata returns without
\* reporting, and the check_data that follows it returns a cube in the units
\* the table declares (1.0 where it declares psu), for both values of
\* automatic_fixes.
C7_CleanCubes ==
    /\ (phase = "metadata" /\ Ended /\ ExactlyMatches(start.cube)) =>
          /\ outcome = "returned"
          /\ nreported = 0
    /\ (/\ phase = "data"
        /\ Ended
        /\ start.phase = "metadata"
        /\ start.outcome = "returned"
        /\ ~start.fresh
        /\ ExactlyMatches(start.cube)) =>
          /\ outcome = "returned"
          /\ nreported = 0
          /\ Truthy(cmor_var.units) => cube.units = get_effective_units

\* the table's entry for the longitude, when it declares the range from 0 to
\* 360
LongitudeInfo ==
    {k \in 1..Len(cmor_var.coordinates) :
        /\ cmor_var.coordinates[k].standard_name = "longitude"
        /\ cmor_var.coordinates[k].valid_min = <<0>>
        /\ cmor_var.coordinates[k].valid_max = <<360>>}

\* the longitude axis the coordinate check finds in the cube
LongitudeAxis(c) ==
    UNION {coords_by_var_name(c, cmor_var.coordinates[k].out_name, TRUE) :
              k \in LongitudeInfo}

\* the coordinate check of a check_metadata call has run on a cube whose
\* longitude axis has a point below 0
AfterCheckBelowZero ==
    /\ phase = "metadata"
    /\ ~fresh
    /\ "check_coords" \in Range(trace)
    /\ Found(LongitudeInfo)
    /\ Found(LongitudeAxis(start.cube))
    /\ \E k \in 1..Len(start.cube.coords[The(LongitudeAxis(start.cube))].points) :
           start.cube.coords[The(LongitudeAxis(start.cube))].points[k] < 0

BelowMessage(var_name) == <<"{}: has values {} {}", var_name, "< valid_min =", "0">>

\* every coordinate the table lists before the longitude is in the cube as the
\* table describes it, and the longitude has the table's units
AloneBelowZero ==
    /\ \A k \in 1..(The(LongitudeInfo) - 1) :
           \/ cmor_var.coordinates[k].generic_level
           \/ cmor_var.coordinates[k].out_name = "time"
           \/ CoordinateMatches(start.cube, cmor_var.coordinates[k])
    /\ start.cube.coords[The(LongitudeAxis(start.cube))].units
          = cmor_var.coordinates[The(LongitudeInfo)].units

\* C8: longitude repair.  The table declares the range from 0 to 360 for the
\* longitude and the cube's longitude axis has a point below 0.  With
\* automatic fixes no out-of-range error is reported, and a cube that
\* check_metadata returns has every longitude in [0, 360), each the longitude
\* of the same data as before, moved by whole turns (the data at -10 is at
\* 350).  Without automatic fixes the error naming valid_min is reported (in
\* fail-fast mode the call raises in the coordinate check, with this message
\* when nothing before the longitude fails) and the longitude axis and the
\* order of the data stay as they were.
C8_Longitude ==
    AfterCheckBelowZero =>
        LET i == The(LongitudeAxis(start.cube))
            before == start.cube.coords[i]
            after == cube.coords[i]
            d == before.dims[1]
            n == Len(before.points)
            message == BelowMessage(cmor_var.coordinates[The(LongitudeInfo)].out_name)
        IN /\ automatic_fixes =>
                 /\ message \notin Range(Reported)
                 /\ outcome = "returned" =>
                       /\ \A k \in 1..n :
                              after.points[k] >= 0 /\ after.points[k] < 360
                       /\ \A k \in 1..n : \E j \in 1..n :
                              /\ cube.order[d][j] = start.cube.order[d][k]
                              /\ (after.points[j] - before.points[k]) % 360 = 0
                       /\ \A k \in 1..n :
                              before.points[k] = -10 =>
                                  \E j \in 1..n :
                                      /\ cube.order[d][j] = start.cube.order[d][k]
                                      /\ after.points[j] = 350
           /\ ~automatic_fixes =>
                 /\ after = before
                 /\ cube.order = start.cube.order
                 /\ cube.id = start.cube.id
                 /\ ~failerr => message \in Range(Reported)
                 /\ failerr =>
                       /\ outcome = "CMORCheckError"
                       /\ trace = SubSeq(MetadataOrder, 1, 4)
                       /\ AloneBelowZero => raised = <<message>>

\* check_metadata with automatic fixes returned a cube whose longitude -10 had
\* become 350, behind the data of the other longitudes
C8_Witness ==
    /\ AfterCheckBelowZero
    /\ automatic_fixes
    /\ outcome = "returned"
    /\ start.cube.coords[The(LongitudeAxis(start.cube))].points = <<-10, 110, 230>>
    /\ cube.coords[The(LongitudeAxis(start.cube))].points = <<110, 230, 350>>
    /\ cube.order[start.cube.coords[The(LongitudeAxis(start.cube))].dims[1]]
          = <<2, 3, 1>>

\* a check_metadata call has ended that was made on the cube an earlier
\* check_metadata had returned, by the same checker or by a new one
SecondCheckMetadata ==
    /\ phase = "metadata"
    /\ Ended
    /\ start.phase = "metadata"
    /\ start.outcome = "returned"

\* C9: check_metadata on a cube that check_metadata returned reports nothing
\* and returns the cube as it was given: the same units, time units and
\* calendar, coordinate points in the same order, the same auxiliary
\* coordinates.
C9_Idempotent ==
    SecondCheckMetadata =>
        /\ outcome = "returned"
        /\ nreported = 0
        /\ errors = <<>>
        /\ cube = start.cube

\* the second check_metadata ran on a cube that the first had changed: units of
\* the time axis, longitudes, categorised coordinates
C9_Witness ==
    /\ SecondCheckMetadata
    /\ outcome = "returned"
    /\ start.cube # ctor_cube
    /\ start.cube.id # 0
    /\ start.cube.aux = Range(AuxiliarTimeCoordinates)

StandardNameMessage ==
    <<"{}: {} should be {}, not {}", start.cube.var_name, "standard_name",
      cmor_var.standard_name, start.cube.standard_name>>

\* C10: standard name.  A check_metadata call on a cube whose standard name is
\* not the one the table declares ends in CMORCheckError, whose messages
\* include the one about the standard name, for both values of
\* automatic_fixes and of fail_on_error; when the table declares no standard
\* name, no message about the standard name is reported.
C10_StandardName ==
    (phase = "metadata" /\ Ended) =>
        /\ (/\ Truthy(cmor_var.standard_name)
            /\ start.cube.standard_name # cmor_var.standard_name) =>
              /\ outcome = "CMORCheckError"
              /\ StandardNameMessage \in Range(raised)
        /\ ~Truthy(cmor_var.standard_name) =>
              \A k \in 1..Len(Reported) :
                  ~(Reported[k][1] = "{}: {} should be {}, not {}"
                    /\ Reported[k][2] = start.cube.var_name
                    /\ Reported[k][3] = "standard_name")

\* a message of one of the two warnings the checker knows
IsWarning(m) ==
    m[1] \in {"{}: attribute {} not present", "{}: does not contain {} {}"}

\* the warnings this call has issued: printed in fail-fast mode, appended to
\* the warning list otherwise
NewWarnings ==
    IF failerr THEN printed
    ELSE SubSeq(warnings, Len(start.warnings) + 1, Len(warnings))

\* the cube is what the table asks for, except that the attribute positive may
\* be missing (requested values may be missing as well: ExactlyMatches does
\* not ask for them)
WarningClassOnly(c) ==
    /\ Truthy(cmor_var.standard_name) => c.standard_name = cmor_var.standard_name
    /\ Truthy(cmor_var.units) => is_convertible(c.units, get_effective_units)
    /\ Truthy(cmor_var.positive) =>
          c.attributes.positive \in {<<>>, <<cmor_var.positive>>}
    /\ c.ndim = Cardinality({k \in 1..Len(cmor_var.coordinates) :
                                ~Truthy(cmor_var.coordinates[k].value)})
    /\ c.ndim = Cardinality({i \in 1..Len(c.coords) : c.coords[i].dim_coord})
    /\ \A k \in 1..Len(cmor_var.coordinates) :
           cmor_var.coordinates[k].generic_level
               \/ CoordinateMatches(c, cmor_var.coordinates[k])

\* the warnings a check_metadata call owes the cube c: one for the attribute
\* positive when the table declares it and the cube lacks it, one for every
\* requested value that is not a point of its dimension coordinate
ExpectedWarnings(c) ==
    (IF Truthy(cmor_var.positive) /\ c.attributes.positive = <<>>
     THEN {<<"{}: attribute {} not present", c.var_name, "positive">>}
     ELSE {})
    \cup UNION {
        LET info == cmor_var.coordinates[k]
            found == coords_by_var_name(c, info.out_name, TRUE)
        IN IF info.generic_level \/ ~Found(found) \/ info.out_name = "time"
           THEN {}
           ELSE {<<"{}: does not contain {} {}", info.out_name,
                   ToString(info.requested[j]), c.coords[The(found)].units>> :
                    j \in {i \in 1..Len(info.requested) :
                              info.requested[i]
                                  \notin Range(c.coords[The(found)].points)}} :
        k \in 1..Len(cmor_var.coordinates)}

VariableFor(args) ==
    LET primary == get_variable(args.table, args.mip, args.short_name)
        custom == get_variable("custom", args.mip, args.short_name)
    IN IF primary # <<>> THEN primary ELSE custom

\* C12: the factory and the entry points.  An unknown table id ends the entry
\* point in NotImplementedError before a checker is built or a check runs, and
\* only an unknown table does.  Every checker an entry point builds is new (no
\* error, no warning), fail-fast and without automatic fixes, for the
\* frequency given and for the variable of the primary table, or of the custom
\* table where the primary table has none.  cmor_check_metadata and
\* cmor_check_data build one checker, cmor_check one for each phase it runs:
\* the data phase runs only after the metadata phase has returned.  An entry
\* point that returns hands back the cube object it was given, which is the
\* one its checker holds.
C12_EntryPoints ==
    /\ (entry.outcome = "NotImplementedError")
          <=> (entry.fn # "none" /\ entry.args.table \notin CMOR_TABLES)
    /\ entry.outcome = "NotImplementedError" =>
          (entry.built = 0 /\ entry.ran = 0 /\ entry.stage = "idle")
    /\ entry.stage = "running" =>
          /\ failerr
          /\ ~automatic_fixes
          /\ errors = <<>>
          /\ warnings = <<>>
          /\ frequency = entry.args.frequency
          /\ VariableFor(entry.args) = <<cmor_var>>
          /\ entry.args = Args("CMIP5", "Amon", "rlut", "mon") => cmor_var = CustomRlut
          /\ entry.args = Args("CMIP5", "Amon", "tas", "mon") => cmor_var = TableTas
          /\ entry.built = entry.ran
          /\ entry.ran = (IF entry.fn = "cmor_check" /\ phase = "data" THEN 2 ELSE 1)
          /\ phase = (IF entry.fn = "cmor_check_data" \/ entry.ran = 2
                      THEN "data" ELSE "metadata")
          /\ entry.ran = 2 => (start.phase = "metadata" /\ start.outcome = "returned")
    /\ (entry.fn = "cmor_check" /\ entry.stage = "idle"
                                /\ VariableFor(entry.args) # <<>>) =>
          /\ entry.outcome = "returned" => entry.ran = 2
          /\ entry.ran = 1 => (phase = "metadata" /\ outcome # "returned"
                                 /\ entry.outcome = outcome)
    /\ entry.outcome = "returned" =>
          /\ outcome = "returned"
          /\ entry.returned = entry.given
          /\ cube.id = entry.given

\* cmor_check returned after both phases, for a variable found in the custom
\* table only
C12_Witness ==
    /\ entry.fn = "cmor_check"
    /\ entry.outcome = "returned"
    /\ entry.ran = 2
    /\ entry.args.table = "CMIP5"
    /\ cmor_var = CustomRlut

\* mask_landsea has ended
MaskEnded == masking.pc = "idle" /\ masking.outcome \in {"returned", "ValueError"}

\* the fx files of a variable among those given
FilesOf(fx_root) ==
    {masking.fx_files[j] : j \in {i \in DOMAIN masking.fx_files :
                                      masking.fx_files[i].root = fx_root}}

\* a file of the variable is given whose longitudes and latitudes have the
\* shapes of those of the cube
Matching(fx_root) ==
    \E f \in FilesOf(fx_root) : check_dims_shapes(masking.grid, f.grid)

\* the data left with the mask of a file of the variable
MaskedBy(fx_root) ==
    /\ masking.outcome = "returned"
    /\ \E f \in FilesOf(fx_root) :
          masking.data_mask =
             [from |-> "fx",
              cells |-> get_fx_mask(f.data, masking.mask_out, fx_root)]
    /\ masking.debug = <<"Applying land-sea mask: " \o fx_root>>

\* the data left with the Natural Earth mask
MaskedByShapefile ==
    /\ masking.outcome = "returned"
    /\ masking.data_mask.from \in {"ne_10m_land.shp", "ne_50m_ocean.shp"}

\* ValueError, and the data as they were
RaisedUnmasked ==
    /\ masking.outcome = "ValueError"
    /\ masking.data_mask = NoMasking.data_mask

IrregularLongitude == Len(points_shape(masking.grid, "longitude")) = 2

\* C13: when mask_landsea has ended, a matching sftlf file was used; sftof was
\* used only without a matching sftlf and with a matching sftof; the Natural
\* Earth mask was used only when neither matched and the longitude is
\* one-dimensional; when neither matched and the longitude is two-dimensional
\* ValueError was raised and the data are unmasked; and exactly one of the
\* four happened.
C13_SourcePriority ==
    MaskEnded =>
        /\ Matching("sftlf") => MaskedBy("sftlf")
        /\ MaskedBy("sftof") => (~Matching("sftlf") /\ Matching("sftof"))
        /\ MaskedByShapefile =>
              (~Matching("sftlf") /\ ~Matching("sftof") /\ ~IrregularLongitude)
        /\ (~Matching("sftlf") /\ ~Matching("sftof") /\ IrregularLongitude)
              => RaisedUnmasked
        /\ \/ MaskedBy("sftlf")
           \/ MaskedBy("sftof")
           \/ MaskedByShapefile
           \/ (RaisedUnmasked /\ ~Matching("sftlf") /\ ~Matching("sftof")
                              /\ IrregularLongitude)
        /\ ~(MaskedBy("sftlf") /\ MaskedBy("sftof"))
        /\ ~(MaskedBy("sftlf") /\ MaskedByShapefile)
        /\ ~(MaskedBy("sftof") /\ MaskedByShapefile)

\* the same for the cubes on a regular grid, where len() of the points is the
\* whole of their shape
C13_RegularGrids == ~IrregularLongitude => C13_SourcePriority

\* what _check_dims lets through on an irregular grid: a mask with as many
\* rows as the cube and other columns
C13_IrregularMask ==
    /\ MaskEnded
    /\ IrregularLongitude
    /\ ~Matching("sftlf")
    /\ Matching("sftof")
    /\ masking.outcome = "ValueError"

\* a message of the monotonicity and direction check
DirectionMessage(m) == m[1] = "{}: is not {}"

\* the first two points of a coordinate run against the table's direction
WrongDirection(info, c) ==
    /\ Len(c.points) > 1
    /\ \/ info.stored_direction = "increasing" /\ c.points[1] > c.points[2]
       \/ info.stored_direction = "decreasing" /\ c.points[1] < c.points[2]

\* the table's coordinates that are no generic level and that the cube has as
\* a dimension coordinate under their output name
FoundByOutName(c) ==
    {k \in 1..Len(cmor_var.coordinates) :
        /\ ~cmor_var.coordinates[k].generic_level
        /\ Found(coords_by_var_name(c, cmor_var.coordinates[k].out_name, TRUE))}

PositionOf(c, k) == The(coords_by_var_name(c, cmor_var.coordinates[k].out_name, TRUE))

\* the messages the check gives for the coordinates of cube c, in the order of
\* the table, from coordinate k on
RECURSIVE DirectionErrorsFrom(_, _, _)
DirectionErrorsFrom(c, with_time, k) ==
    IF k > Len(cmor_var.coordinates) THEN <<>>
    ELSE LET info == cmor_var.coordinates[k]
             checked == k \in FoundByOutName(c)
                           /\ (with_time \/ info.out_name # "time")
             coord == c.coords[PositionOf(c, k)]
         IN (IF checked /\ ~is_monotonic(coord.points)
             THEN <<(<<"{}: is not {}", info.out_name, "monotonic">>)>>
             ELSE <<>>)
            \o (IF checked /\ WrongDirection(info, coord)
                THEN <<(<<"{}: is not {}", info.out_name, info.stored_direction>>)>>
                ELSE <<>>)
            \o DirectionErrorsFrom(c, with_time, k + 1)

\* a sequence turned round by some number of places
IsRotation(q, of) ==
    /\ Len(q) = Len(of)
    /\ \E e \in 0..Len(of) :
          \A k \in 1..Len(of) : q[k] = of[((k - 1 + e) % Len(of)) + 1]

\* C14, in check_metadata with automatic fixes: no monotonicity or direction
\* message is reported, and no dimension of the cube is reversed: its data
\* keep their order (the longitude repair may turn the longitude axis round),
\* and a coordinate that ran against the table's direction still does.
C14_MetadataDeferred ==
    (phase = "metadata" /\ ~fresh /\ automatic_fixes) =>
        /\ SelectSeq(Reported, DirectionMessage) = <<>>
        /\ \A d \in DOMAIN cube.order :
              /\ IsRotation(cube.order[d], start.cube.order[d])
              /\ cube.order[d] # start.cube.order[d] =>
                    \E k \in FoundByOutName(start.cube) :
                        /\ cmor_var.coordinates[k].standard_name = "longitude"
                        /\ start.cube.coords[PositionOf(start.cube, k)].dims = <<d>>
        /\ \A k \in FoundByOutName(start.cube) :
              WrongDirection(cmor_var.coordinates[k],
                             start.cube.coords[PositionOf(start.cube, k)])
                 => WrongDirection(cmor_var.coordinates[k],
                                   cube.coords[PositionOf(start.cube, k)])

\* C14, in check_data once the coordinates are checked: every coordinate found
\* was checked, `time` included.  Without automatic fixes the messages
\* reported are those of the coordinates that run against the table, in the
\* table's order (the first of them raised, in fail-fast mode); with automatic
\* fixes nothing is reported and exactly those coordinates are reversed.
C14_DataChecked ==
    (phase = "data" /\ ~fresh /\ "check_coords_data" \in Range(trace)) =>
        LET expected == DirectionErrorsFrom(start.cube, TRUE, 1)
        IN /\ (~automatic_fixes /\ ~failerr) =>
                 SelectSeq(Reported, DirectionMessage) = expected
           /\ (~automatic_fixes /\ failerr /\ expected # <<>>) =>
                 (outcome = "CMORCheckError" /\ raised = <<expected[1]>>)
           /\ (~automatic_fixes /\ failerr /\ expected = <<>>) => raised = <<>>
           /\ automatic_fixes =>
                 /\ SelectSeq(Reported, DirectionMessage) = <<>>
                 /\ \A k \in FoundByOutName(start.cube) :
                       LET i == PositionOf(start.cube, k)
                           before == start.cube.coords[i]
                       IN cube.coords[i].points =
                             IF WrongDirection(cmor_var.coordinates[k], before)
                             THEN Reverse(before.points) ELSE before.points

\* C14, in check_metadata without automatic fixes once the coordinates are
\* checked: the messages reported are those of the coordinates found that run
\* against the table, `time` left out, in the table's order (in fail-fast mode
\* the call has raised when there is one).
C14_MetadataInline ==
    (phase = "metadata" /\ ~fresh /\ ~automatic_fixes
                        /\ "check_coords" \in Range(trace)) =>
        LET expected == DirectionErrorsFrom(start.cube, FALSE, 1)
        IN /\ ~failerr => SelectSeq(Reported, DirectionMessage) = expected
           /\ (failerr /\ expected # <<>>) => outcome = "CMORCheckError"
           /\ failerr => \A j \in 1..Len(raised) :
                            DirectionMessage(raised[j]) => raised[j] \in Range(expected)

\* C14: the three together
C14_PhaseGating == C14_MetadataDeferred /\ C14_DataChecked /\ C14_MetadataInline

\* a checker without automatic fixes that collects errors has run check_data
\* on a cube whose time and latitude both run against the table: both were
\* reported, and check_metadata would have reported the latitude only
C14_Witness ==
    /\ phase = "data"
    /\ ~fresh
    /\ ~automatic_fixes
    /\ ~failerr
    /\ outcome = "CMORCheckError"
    /\ Len(DirectionErrorsFrom(start.cube, TRUE, 1)) >= 2
    /\ <<"{}: is not {}", "time", "increasing">> \in Range(Reported)
    /\ Len(DirectionErrorsFrom(start.cube, FALSE, 1))
          < Len(DirectionErrorsFrom(start.cube, TRUE, 1))

\* a checker with automatic fixes has run check_metadata to its end on a cube
\* with a coordinate that runs against the table
C14_WitnessDeferred ==
    /\ phase = "metadata"
    /\ ~fresh
    /\ automatic_fixes
    /\ Ended
    /\ DirectionErrorsFrom(start.cube, TRUE, 1) # <<>>
    /\ DirectionErrorsFrom(cube, TRUE, 1) # <<>>

\* a message of the dimension-name check: the three kinds
DimNameMessage(m) ==
    \/ m[1] = "{}: {} should be {}, not {}" /\ m[3] = "standard_name"
                                            /\ m[2] # start.cube.var_name
    \/ m[1] = "Coordinate {0} has var name {1} instead of {2}"
    \/ m[1] = "{}: does not {}" /\ m[3] = "exist"

\* the coordinates of cube c with a variable name, and with a standard name
WithVarName(c, var_name) ==
    {i \in 1..Len(c.coords) : c.coords[i].var_name = var_name}

WithStandardName(c, standard_name) ==
    {i \in 1..Len(c.coords) : c.coords[i].standard_name = standard_name}

\* which of the four outcomes a coordinate of the table has on cube c; 0 for a
\* generic level
DimNameOutcome(c, info) ==
    IF info.generic_level THEN 0
    ELSE IF \E i \in WithVarName(c, info.out_name) :
               c.coords[i].standard_name = info.standard_name THEN 1
    ELSE IF WithVarName(c, info.out_name) # {} THEN 2
    ELSE IF WithStandardName(c, info.standard_name) # {} THEN 3
    ELSE 4

\* the message of an outcome
DimNameError(c, info) ==
    CASE DimNameOutcome(c, info) = 2 ->
            <<(<<"{}: {} should be {}, not {}", info.out_name, "standard_name",
                 info.standard_name,
                 c.coords[The(WithVarName(c, info.out_name))].standard_name>>)>>
      [] DimNameOutcome(c, info) = 3 ->
            <<(<<"Coordinate {0} has var name {1} instead of {2}", info.name,
                 c.coords[The(WithStandardName(c, info.standard_name))].var_name,
                 info.out_name>>)>>
      [] DimNameOutcome(c, info) = 4 ->
            <<(<<"{}: does not {}", info.name, "exist">>)>>
      [] OTHER -> <<>>

\* the messages of the coordinates of the table, in its order, from k on
RECURSIVE DimNameErrorsFrom(_, _)
DimNameErrorsFrom(c, k) ==
    IF k > Len(cmor_var.coordinates) THEN <<>>
    ELSE DimNameError(c, cmor_var.coordinates[k]) \o DimNameErrorsFrom(c, k + 1)

\* the dimension-name check of a check_metadata call has just run
AfterDimNames ==
    /\ phase = "metadata"
    /\ ~fresh
    /\ Len(trace) = 3
    /\ trace[3] = "check_dim_names"

\* C15: when the dimension-name check has run, every coordinate of the table
\* that is no generic level has given the one message of its outcome, none
\* for the first outcome, and the generic levels have given none: a collecting
\* checker holds these messages in the order of the table, a fail-fast checker
\* has raised the first of them.
C15_DimNames ==
    AfterDimNames =>
        LET expected == DimNameErrorsFrom(start.cube, 1)
        IN /\ ~failerr => SelectSeq(Reported, DimNameMessage) = expected
           /\ (failerr /\ expected # <<>>) =>
                 (outcome = "CMORCheckError" /\ raised = <<expected[1]>>)
           /\ (failerr /\ expected = <<>>) => (raised = <<>> /\ pc # "idle")

\* the check has run on a cube that has no coordinate of the name or of the
\* standard name of one of the table's
C15_Witness ==
    /\ AfterDimNames
    /\ ~failerr
    /\ \E k \in 1..Len(cmor_var.coordinates) :
          /\ DimNameOutcome(start.cube, cmor_var.coordinates[k]) = 4
          /\ <<"{}: does not {}", cmor_var.coordinates[k].name, "exist">>
                \in Range(Reported)

\* the check has run on cubes with the second and the third outcome, and on a
\* cube without the generic level of the table
C15_WitnessStandardName ==
    /\ AfterDimNames
    /\ \E k \in 1..Len(cmor_var.coordinates) :
          DimNameOutcome(start.cube, cmor_var.coordinates[k]) = 2

C15_WitnessVarName ==
    /\ AfterDimNames
    /\ \E k \in 1..Len(cmor_var.coordinates) :
          DimNameOutcome(start.cube, cmor_var.coordinates[k]) = 3

C15_WitnessGeneric ==
    /\ AfterDimNames
    /\ \E k \in 1..Len(cmor_var.coordinates) :
          /\ cmor_var.coordinates[k].generic_level
          /\ WithVarName(start.cube, cmor_var.coordinates[k].out_name) = {}

\* the table's coordinates that are no generic level, have no fixed value and
\* are found on cube c by their standard name
Spanning(c) ==
    {k \in 1..Len(cmor_var.coordinates) :
        /\ ~cmor_var.coordinates[k].generic_level
        /\ cmor_var.coordinates[k].value = ""
        /\ WithStandardName(c, cmor_var.coordinates[k].standard_name) # {}}

\* the dimensions of cube c a coordinate of the table spans
DimensionsOf(c, k) ==
    Range(c.coords[The(WithStandardName(
              c, cmor_var.coordinates[k].standard_name))].dims)

\* the rank the table gives cube c
ExpectedRank(c) ==
    Cardinality({k \in 1..Len(cmor_var.coordinates) :
                    cmor_var.coordinates[k].generic_level})
    + Cardinality(UNION {DimensionsOf(c, k) : k \in Spanning(c)})

RankMessage(c) == <<"{}: does not {}", c.var_name, "match coordinate rank">>

\* C16: the rank check reports the rank error when the number of dimensions
\* of the cube is not the rank the table gives it, and otherwise nothing; it
\* reports nothing else and leaves the cube alone.  A collecting checker
\* appends the error to its list, a fail-fast checker raises it.
C16_Rank ==
    [][pc = "check_rank" =>
          LET differ == cube.ndim # ExpectedRank(cube)
          IN /\ cube' = cube
             /\ warnings' = warnings
             /\ ~failerr =>
                   /\ errors' = IF differ THEN Append(errors, RankMessage(cube))
                                ELSE errors
                   /\ pc' = "report_warnings"
             /\ failerr =>
                   /\ errors' = errors
                   /\ raised' = IF differ THEN <<RankMessage(cube)>> ELSE <<>>
                   /\ differ <=> outcome' = "CMORCheckError"]_vars

\* the rank check of a check_metadata call has just run
AfterRank == phase = "metadata" /\ ~fresh /\ Len(trace) = 6 /\ trace[6] = "check_rank"

\* the rank check has reported: the table has a generic level the cube lacks
C16_Witness ==
    /\ AfterRank
    /\ RankMessage(cube) \in Range(Reported)
    /\ \E k \in 1..Len(cmor_var.coordinates) : cmor_var.coordinates[k].generic_level
    /\ cube.ndim = ExpectedRank(cube) - 1

\* the rank check has passed a cube two of whose coordinates span the same
\* dimensions, a cube with a coordinate of a fixed value, and a cube that
\* lacks a coordinate of the table
C16_WitnessSameDimension ==
    /\ AfterRank
    /\ RankMessage(cube) \notin Range(Reported)
    /\ \E k, j \in Spanning(cube) :
          k # j /\ DimensionsOf(cube, k) \cap DimensionsOf(cube, j) # {}

C16_WitnessFixedValue ==
    /\ AfterRank
    /\ RankMessage(cube) \notin Range(Reported)
    /\ \E k \in 1..Len(cmor_var.coordinates) :
          /\ cmor_var.coordinates[k].value # ""
          /\ WithStandardName(cube, cmor_var.coordinates[k].standard_name) # {}

C16_WitnessNotFound ==
    /\ AfterRank
    /\ ~failerr
    /\ RankMessage(cube) \notin Range(Reported)
    /\ \E k \in 1..Len(cmor_var.coordinates) :
          /\ ~cmor_var.coordinates[k].generic_level
          /\ WithStandardName(cube, cmor_var.coordinates[k].standard_name) = {}

\* the frequencies of a fixed length, and the lengths the claim gives them:
\* <<low, high>> in days
FixedFrequencies == {"day", "dec", "1hr", "3hr", "6hr", "subhr"}

\* 24000 times the length in days, so that N / 24 days is the integer 1000 N
Length24(f) ==
    CASE f = "day" -> <<24000, 24000>>
      [] f = "dec" -> <<24000 * 3600, 24000 * 3660>>
      [] f = "subhr" -> <<0, 1000>>
      [] f = "1hr" -> <<1000, 1000>>
      [] f = "3hr" -> <<3000, 3000>>
      [] f = "6hr" -> <<6000, 6000>>

\* the time axis of the cube as the call found it, and as it is now
TimeAxis(c) == c.coords[The(coords_by_name(c, "time", TRUE))]

\* the time check of a check_metadata call has just run for a frequency of a
\* fixed length and has come to its loop: a fail-fast checker raises on units
\* that are no time reference before it
AfterFixedTimeCheck ==
    /\ phase = "metadata"
    /\ ~fresh
    /\ trace # <<>>
    /\ trace[Len(trace)] = "check_time_coord"
    /\ frequency \in FixedFrequencies
    /\ Found(coords_by_name(start.cube, "time", TRUE))
    /\ failerr => is_time_reference(TimeAxis(start.cube).units)

\* 24000 times the gap in days after point k of the time axis (the points are
\* thousandths of a day)
Gap24(k) == 24 * (TimeAxis(cube).points[k + 1] - TimeAxis(cube).points[k])

\* the pairs whose gap lies outside [low - 0.001, high + 0.001]
OutsidePairs ==
    {k \in 1..(Len(TimeAxis(cube).points) - 1) :
        \/ Gap24(k) < Length24(frequency)[1] - 24
        \/ Gap24(k) > Length24(frequency)[2] + 24}

FixedMessage ==
    <<"{}: Frequency {} does not match input data", "time", frequency>>

\* C17: frequencies of a fixed length.  When no gap between consecutive points
\* lies outside [low - 0.001, high + 0.001] days, the ends included, the time
\* check examines every pair and reports no frequency error; otherwise it
\* reports exactly one, at the first pair outside, and examines no pair after.
C17_FixedLength ==
    AfterFixedTimeCheck =>
        /\ OutsidePairs = {} =>
              /\ Count(Reported, FixedMessage) = 0
              /\ scanned = Len(TimeAxis(cube).points) - 1
        /\ OutsidePairs # {} =>
              /\ Count(Reported, FixedMessage) = 1
              /\ Reported[Len(Reported)] = FixedMessage
              /\ scanned = CHOOSE k \in OutsidePairs : \A j \in OutsidePairs : k <= j
              /\ failerr => outcome = "CMORCheckError"

\* three points, the first two a day less a thousandth apart (the lower end of
\* the interval) and the last two a day and a thousandth (the upper end): both
\* pairs were examined and nothing was reported
C17_Witness ==
    /\ AfterFixedTimeCheck
    /\ frequency = "day"
    /\ Len(TimeAxis(cube).points) = 3
    /\ Gap24(1) = Length24("day")[1] - 24
    /\ Gap24(2) = Length24("day")[2] + 24
    /\ scanned = 2
    /\ Count(Reported, FixedMessage) = 0

\* three points whose first gap is a thousandth of a day beyond an end: one
\* error, and the second pair was not examined
C17_WitnessOutside ==
    /\ AfterFixedTimeCheck
    /\ Len(TimeAxis(cube).points) = 3
    /\ \/ Gap24(1) = Length24(frequency)[1] - 48
       \/ Gap24(1) = Length24(frequency)[2] + 48
    /\ scanned = 1
    /\ Count(Reported, FixedMessage) = 1

\* the ends of the intervals of the other frequencies were met and accepted
C17_WitnessEnds ==
    /\ AfterFixedTimeCheck
    /\ Len(TimeAxis(cube).points) = 3
    /\ Gap24(1) = Length24(frequency)[1] - 24
    /\ Gap24(2) = Length24(frequency)[2] + 24
    /\ Count(Reported, FixedMessage) = 0
    /\ frequency \in {"dec", "3hr"}

C17_WitnessSubHourly ==
    /\ AfterFixedTimeCheck
    /\ frequency = "subhr"
    /\ Len(TimeAxis(cube).points) = 2
    /\ Gap24(1) = Length24(frequency)[1] - 24
    /\ Count(Reported, FixedMessage) = 0

\* a collecting checker has examined the plain numbers of a time axis whose
\* units are no time reference
C17_WitnessPlain ==
    /\ AfterFixedTimeCheck
    /\ ~is_time_reference(TimeAxis(start.cube).units)
    /\ OutsidePairs # {}
    /\ Count(Reported, FixedMessage) = 1

\* the frequencies the time check knows nothing of
Unsupported(f) == f \notin {"mon", "yr", "dec", "day"} /\ ~endswith_hr(f)

UnsupportedMessage(f) == <<"{}: Frequency {} not supported by checker", "time", f>>

TimeUnitsMessage == <<"{}: does not {}", "time", "have time reference units">>

\* a message about a frequency that does not match the data
MismatchMessage(m) == m[1] = "{}: Frequency {} does not match input data"

\* C18: what a step of the time check does.  On a cube without a dimension
\* coordinate `time` it reports nothing and changes nothing, for every
\* frequency.  On a cube with one and a frequency it knows nothing of, it
\* reports the 'not supported' error once and no frequency mismatch, and
\* examines no pair of points (a fail-fast checker that raised on the units
\* has reported that error alone).  On a time axis whose units are no time
\* reference it reports the units error and leaves the axis as it is.
C18_TimeEntry ==
    [][pc = "check_time_coord" =>
          LET has_time == coords_by_name(cube, "time", TRUE) # {}
              plain == TimeAxis(cube).units \notin TimeRefUnits
              reported == IF failerr THEN raised'
                          ELSE SubSeq(errors', Len(errors) + 1, Len(errors'))
          IN /\ ~has_time =>
                   /\ cube' = cube
                   /\ errors' = errors
                   /\ warnings' = warnings
                   /\ raised' = <<>>
                   /\ printed' = printed
                   /\ pc' = "check_rank"
             /\ (has_time /\ Unsupported(frequency)) =>
                   /\ scanned' = scanned
                   /\ SelectSeq(reported, MismatchMessage) = <<>>
                   /\ reported =
                         IF plain /\ failerr THEN <<TimeUnitsMessage>>
                         ELSE IF plain
                         THEN <<TimeUnitsMessage, UnsupportedMessage(frequency)>>
                         ELSE <<UnsupportedMessage(frequency)>>
             /\ (has_time /\ plain) =>
                   /\ Count(reported, TimeUnitsMessage) = 1
                   /\ reported[1] = TimeUnitsMessage
                   /\ cube' = cube]_vars

\* the time check has just run
AfterTimeCheck ==
    /\ phase = "metadata"
    /\ ~fresh
    /\ trace # <<>>
    /\ trace[Len(trace)] = "check_time_coord"

\* the time check has met a frequency it knows nothing of on a time axis with
\* time-reference units
C18_Witness ==
    /\ AfterTimeCheck
    /\ coords_by_name(start.cube, "time", TRUE) # {}
    /\ TimeAxis(start.cube).units \in TimeRefUnits
    /\ Unsupported(frequency)
    /\ Reported = <<UnsupportedMessage(frequency)>>
    /\ scanned = 0

\* the time check has passed over a cube without time, for a frequency that
\* would not pass float(); and it has met units that are no time reference
C18_WitnessNoTime ==
    /\ AfterTimeCheck
    /\ coords_by_name(start.cube, "time", TRUE) = {}
    /\ frequency = "hr"
    /\ pc = "check_rank"
    /\ cube = start.cube

C18_WitnessPlainUnits ==
    /\ AfterTimeCheck
    /\ coords_by_name(start.cube, "time", TRUE) # {}
    /\ TimeAxis(start.cube).units \notin TimeRefUnits
    /\ TimeUnitsMessage \in Range(Reported)
    /\ TimeAxis(cube) = TimeAxis(start.cube)
    /\ ~failerr
    /\ Unsupported(frequency)

\* the per-coordinate check of a check_metadata call has just run
AfterCoords ==
    /\ phase = "metadata"
    /\ ~fresh
    /\ trace # <<>>
    /\ trace[Len(trace)] = "check_coords"

\* the table's coordinates the unit check is about: no generic level, not
\* `time`, found as a dimension coordinate, the table's units other than those
\* the cube came with
UnitsDiffer(k) ==
    /\ k \in FoundByOutName(start.cube)
    /\ cmor_var.coordinates[k].out_name # "time"
    /\ cmor_var.coordinates[k].units # ""
    /\ start.cube.coords[PositionOf(start.cube, k)].units
          # cmor_var.coordinates[k].units

UnitsMessage(k) ==
    <<"{}: {} should be {}, not {}", cmor_var.coordinates[k].out_name, "units",
      cmor_var.coordinates[k].units,
      start.cube.coords[PositionOf(start.cube, k)].units>>

\* the units the cube came with can be converted to the table's
Convertible(k) ==
    is_convertible(start.cube.coords[PositionOf(start.cube, k)].units,
                   cmor_var.coordinates[k].units)

\* C19 for the coordinates in Which, in a collecting checker once the
\* per-coordinate check has run: the units error of a coordinate is reported
\* without automatic fixes, and with them when the units cannot be converted;
\* it is not reported only with automatic fixes and convertible units, and the
\* coordinate then has the table's units.  No units error is ever reported for
\* `time`.
UnitsRepair(Which) ==
    (AfterCoords /\ ~failerr) =>
        /\ \A k \in {j \in Which : UnitsDiffer(j)} :
              /\ ~automatic_fixes => Count(Reported, UnitsMessage(k)) = 1
              /\ (automatic_fixes /\ ~Convertible(k)) =>
                    Count(Reported, UnitsMessage(k)) = 1
              /\ Count(Reported, UnitsMessage(k)) = 0 =>
                    /\ automatic_fixes
                    /\ Convertible(k)
                    /\ cube.coords[PositionOf(start.cube, k)].units
                          = cmor_var.coordinates[k].units
        /\ \A j \in 1..Len(Reported) :
              ~(Reported[j][2] = "time" /\ Reported[j][3] = "units")

\* C19: the units check of every coordinate of the table
C19_UnitsRepair == UnitsRepair(1..Len(cmor_var.coordinates))

\* the same for the coordinates whose units the cube knows
C19_KnownUnits ==
    UnitsRepair({k \in FoundByOutName(start.cube) :
                    ~is_unknown(start.cube.coords[PositionOf(start.cube, k)].units)})

\* with automatic fixes, units that could not be converted were reported and
\* units that could were converted
C19_WitnessReported ==
    /\ AfterCoords
    /\ ~failerr
    /\ automatic_fixes
    /\ \E k \in 1..Len(cmor_var.coordinates) :
          UnitsDiffer(k) /\ ~Convertible(k) /\ UnitsMessage(k) \in Range(Reported)

C19_WitnessConverted ==
    /\ AfterCoords
    /\ ~failerr
    /\ automatic_fixes
    /\ \E k \in 1..Len(cmor_var.coordinates) :
          /\ UnitsDiffer(k)
          /\ Convertible(k)
          /\ Reported = <<>>
          /\ cube.coords[PositionOf(start.cube, k)].units
                = cmor_var.coordinates[k].units

\* with automatic fixes, a coordinate of unknown units has ended the call
C19_UnknownUnits ==
    /\ AfterCoords
    /\ automatic_fixes
    /\ outcome = "UnitConversionError"
    /\ Reported = <<>>

\* a step of a checker, not the construction of a new one, leaves what its
\* lists held where it was
AppendOnly ==
    (fresh' /\ ~fresh) \/ (IsPrefix(errors, errors') /\ IsPrefix(warnings, warnings'))

\* a call on a collecting checker that had errors when it began has ended
EndedWithOldErrors == Ended /\ ~failerr /\ start.errors # <<>>

\* a call on a collecting checker that had warnings when it began has come to
\* report its warnings
ReportedOldWarnings ==
    ~failerr /\ ~fresh /\ start.warnings # <<>> /\ "report_warnings" \in Range(trace)

\* C20 as the specification states it: no step removes an entry of the error
\* list or of the warning list; every call on a collecting checker that began
\* with errors ends in CMORCheckError; and check_data on a collecting checker
\* that began with warnings logs the warnings.
C20_Accumulators ==
    /\ [][AppendOnly]_vars
    /\ [](EndedWithOldErrors => outcome = "CMORCheckError")
    /\ []((Ended /\ ~failerr /\ phase = "data" /\ start.warnings # <<>>)
             => logged = <<warnings>>)

\* C20: no step removes an entry of the error list or of the warning list.  A
\* call on a collecting checker that began with errors never returns: when it
\* comes to report_errors it raises CMORCheckError with the old errors first,
\* and otherwise another exception has ended it before.  A call that began
\* with warnings and comes to report_warnings logs the whole list, the old
\* warnings first.
C20_AppendOnly ==
    /\ [][AppendOnly]_vars
    /\ [](EndedWithOldErrors =>
             /\ outcome # "returned"
             /\ has_errors(Running)
             /\ "report_errors" \in Range(trace) =>
                   (outcome = "CMORCheckError" /\ raised = errors
                                               /\ IsPrefix(start.errors, raised)))
    /\ [](ReportedOldWarnings =>
             (logged = <<warnings>> /\ IsPrefix(start.warnings, warnings)))

\* check_data on a collecting checker whose check_metadata left errors and
\* warnings: the warnings are logged again and the old errors are raised
C20_Witness ==
    /\ Ended
    /\ ~failerr
    /\ phase = "data"
    /\ start.phase = "metadata"
    /\ ~start.fresh
    /\ start.errors # <<>>
    /\ start.warnings # <<>>
    /\ outcome = "CMORCheckError"
    /\ raised = start.errors
    /\ logged = <<start.warnings>>

\* check_data on a collecting checker whose check_metadata found the units of
\* the cube inconvertible: the conversion ends the call before report_errors
C20_WitnessValueError ==
    /\ EndedWithOldErrors
    /\ phase = "data"
    /\ start.phase = "metadata"
    /\ start.outcome = "CMORCheckError"
    /\ outcome = "ValueError"
    /\ trace = <<"convert_units">>

\* the coordinate of the constructor's cube that the time check addresses
IsTimeCoordinate(i) == i \in coords_by_name(ctor_cube, "time", TRUE)

\* the points of the constructor's coordinate i as days since 1950-1-1
Normalized(i) ==
    [k \in 1..Len(ctor_cube.coords[i].points) |->
        to_days_since_1950(ctor_cube.coords[i].points[k],
                           ctor_cube.coords[i].units,
                           ctor_cube.coords[i].calendar)]

\* the checker still holds the cube object of the constructor, with its data
\* in their order and its attribute invalid_units
CubeKept ==
    /\ cube.id = ctor_cube.id
    /\ cube.order = ctor_cube.order
    /\ cube.attributes.invalid_units = ctor_cube.attributes.invalid_units
    /\ Len(cube.coords) = Len(ctor_cube.coords)

\* the coordinates other than time have the points and the units of the
\* constructor's cube
OthersKept ==
    \A i \in 1..Len(ctor_cube.coords) :
        ~IsTimeCoordinate(i) =>
            /\ cube.coords[i].points = ctor_cube.coords[i].points
            /\ cube.coords[i].units = ctor_cube.coords[i].units

\* the time coordinate has the points of the constructor's cube
TimeKept ==
    \A i \in 1..Len(ctor_cube.coords) :
        IsTimeCoordinate(i) => cube.coords[i].points = ctor_cube.coords[i].points

\* the time coordinate has the points of the constructor's cube, or, when its
\* units are a time reference, each of them as days since 1950-1-1
TimeNormalized ==
    \A i \in 1..Len(ctor_cube.coords) :
        IsTimeCoordinate(i) =>
            \/ cube.coords[i].points = ctor_cube.coords[i].points
            \/ /\ is_time_reference(ctor_cube.coords[i].units)
               /\ cube.coords[i].points = Normalized(i)
               /\ cube.coords[i].units = "days since 1950-1-1 00:00:00"

\* the dimensions whose data a step has put in another order
Rearranged == {d \in DOMAIN cube.order : cube'.order[d] # cube.order[d]}

\* a step that replaces the cube object is the coordinate check of
\* check_metadata, which turns longitude axes round, or the coordinate check
\* of check_data, which reverses dimensions, of a checker with automatic
\* fixes; each replacement rearranges one dimension at most
ReplacedByRepair ==
    cube'.id # cube.id =>
        /\ automatic_fixes
        /\ cube'.id > cube.id
        /\ DOMAIN cube'.order = DOMAIN cube.order
        /\ Cardinality(Rearranged) <= cube'.id - cube.id
        /\ \/ /\ pc = "check_coords"
              /\ \A d \in Rearranged :
                    /\ IsRotation(cube'.order[d], cube.order[d])
                    /\ \E i \in LongitudeAxis(cube) : cube.coords[i].dims = <<d>>
           \/ /\ pc = "check_coords_data"
              /\ \A d \in Rearranged : cube'.order[d] = Reverse(cube.order[d])

\* C21 as the specification states it: a checker without automatic fixes keeps
\* the cube object of its constructor through every call, no coordinate's
\* points are changed, no units of a coordinate other than time are changed,
\* the attribute invalid_units stays; and the cube object is replaced only by
\* a reversal of one dimension or a re-wrap of the longitude, with automatic
\* fixes.
C21_NoRepair ==
    /\ [](~automatic_fixes => (CubeKept /\ OthersKept /\ TimeKept))
    /\ [][ReplacedByRepair]_vars

\* C21: a checker without automatic fixes keeps the cube object of its
\* constructor through every call, with its data in their order and its
\* attribute invalid_units; the coordinates other than time keep their points
\* and their units; the time coordinate keeps the order of its points, whose
\* values change only when check_metadata converts them to days since
\* 1950-1-1.  The cube object is replaced only by the reversal of a dimension
\* in check_data or the re-wrap of the longitude in check_metadata, with
\* automatic fixes.
C21_NoRepairOptIn ==
    /\ [](~automatic_fixes => (CubeKept /\ OthersKept /\ TimeNormalized))
    /\ [][ReplacedByRepair]_vars

\* a collecting checker without automatic fixes has run check_metadata and
\* then check_data on a cube with a coordinate that runs against the table and
\* a longitude out of the table's range: the cube is the constructor's
C21_Witness ==
    /\ ~automatic_fixes
    /\ ~failerr
    /\ Ended
    /\ phase = "data"
    /\ start.phase = "metadata"
    /\ "check_coords_data" \in Range(trace)
    /\ \E k \in FoundByOutName(ctor_cube) :
          WrongDirection(cmor_var.coordinates[k],
                         ctor_cube.coords[PositionOf(ctor_cube, k)])
    /\ \E i \in LongitudeAxis(ctor_cube) :
          \E k \in 1..Len(ctor_cube.coords[i].points) :
              ctor_cube.coords[i].points[k] < 0
    /\ CubeKept
    /\ OthersKept

\* a checker with automatic fixes holds another cube object than the one its
\* constructor was given
C21_WitnessReplaced ==
    /\ automatic_fixes
    /\ Ended
    /\ cube.id # ctor_cube.id
    /\ cube.order # ctor_cube.order

\* check_metadata of a checker without automatic fixes has changed the values
\* of the time points
C21_TimeConverted ==
    /\ ~automatic_fixes
    /\ Ended
    /\ ~TimeKept
    /\ TimeNormalized

\* the statement or public method that ran last
LastEntered == IF trace = <<>> THEN "" ELSE trace[Len(trace)]

\* C22: a checker with fail_on_error=true never holds an error or a warning:
\* has_errors() and has_warnings() are false in every state, whatever
\* report_error, report_warning, check_metadata and check_data calls were
\* made and however they ended.  So its report_errors never raises, as a
\* statement of check_metadata or check_data or called by the caller, its
\* report_warnings never logs, and every CMORCheckError it raises carries the
\* one message of the one report_error that raised it.
C22_FailFastEmpty ==
    failerr =>
        /\ ~has_errors(Running)
        /\ ~has_warnings(Running)
        /\ logged = <<>>
        /\ LastEntered = "report_errors" => outcome \in {"running", "returned"}
        /\ LastEntered = "report_warnings" => outcome \in {"running", "returned"}
        /\ outcome = "CMORCheckError" =>
              /\ Len(raised) = 1
              /\ nreported = 1
              /\ LastEntered \notin {"report_errors", "report_warnings"}
        /\ outcome # "CMORCheckError" => (raised = <<>> /\ nreported = 0)

\* a fail-fast checker whose check_metadata raised has been given an error by
\* the caller, and raised it
C22_Witness ==
    /\ failerr
    /\ phase = "report_error"
    /\ outcome = "CMORCheckError"
    /\ raised = <<(<<"{}: unexpected", "tas">>)>>
    /\ start.phase = "metadata"
    /\ start.outcome = "CMORCheckError"
    /\ ~has_errors(Running)

\* the caller has called report_errors of a fail-fast checker after a
\* report_error that raised: it returned
C22_WitnessReportErrors ==
    /\ failerr
    /\ phase = "report_errors"
    /\ start.phase = "report_error"
    /\ start.outcome = "CMORCheckError"
    /\ outcome = "returned"

\* the caller has called report_warnings of a fail-fast checker after a
\* report_warning: the warning was printed then, and nothing is logged now
C22_WitnessReportWarnings ==
    /\ failerr
    /\ phase = "report_warnings"
    /\ start.phase = "report_warning"
    /\ start.outcome = "returned"
    /\ outcome = "returned"
    /\ logged = <<>>

\* check_data of a fail-fast checker has come to its report_errors and
\* returned, after a report_warning and a report_error of the caller
C22_WitnessCheckData ==
    /\ failerr
    /\ phase = "data"
    /\ LastEntered = "report_errors"
    /\ outcome = "returned"
    /\ start.phase \in {"report_error", "report_warning"}

\* a collecting checker, for comparison: the caller's report_error was stored,
\* and report_errors raises it
C22_WitnessCollecting ==
    /\ ~failerr
    /\ phase = "report_errors"
    /\ start.phase = "report_error"
    /\ outcome = "CMORCheckError"
    /\ raised = errors
    /\ has_errors(Running)

\* a report with fewer arguments than the template has fields ends in
\* IndexError before anything is raised, printed or stored
C22_WitnessIndexError ==
    /\ failerr
    /\ phase \in {"report_error", "report_warning"}
    /\ outcome = "IndexError"
    /\ printed = <<>>
    /\ raised = <<>>

====
